---------------------------- MODULE Spec2Model ----------------------------
(***************************************************************************)
(* A model of the audio-visualizer program state:                          *)
(*   - Core's layer list (insert / move / remove / clear / openProject),   *)
(*   - the FfmpegVideo frame pump and its frame(n) accessor,               *)
(*   - the preview worker's request queue,                                 *)
(*   - the metaclass wrappers that contain exceptions of a layer,          *)
(*   - tracked controls, relative values, presets and the undo stack.      *)
(* Each subsystem has its own specification (SpecLayers, SpecPump,         *)
(* SpecPreview, SpecWrap, SpecComp, ...) over one set of variables.        *)
(***************************************************************************)
EXTENDS Integers, Naturals, Sequences, FiniteSets, TLC

VARIABLES
    \* ---- Core (core.py) ----
    selectedComponents, \* Core.selectedComponents: sequence of layer records
    nextId,             \* number of Component instances constructed so far
    openingProject,     \* Core.openingProject
    lastCall,           \* the Core/loader call that returned last, with its result
    \* ---- FfmpegVideo (toolkit/ffmpeg.py) ----
    stream,             \* the chunks the encoder writes to its stdout, in order
    pipePos,            \* how many chunks have been read from the pipe
    frameNo,            \* FfmpegVideo.frameNo
    currentFrame,       \* FfmpegVideo.currentFrame
    lastFrame,          \* FfmpegVideo.lastFrame
    frameBuffer,        \* FfmpegVideo.frameBuffer (PriorityQueue of (index, bytes))
    finishedFrames,     \* FfmpegVideo.finishedFrames (dict index -> bytes)
    canceled,           \* parent.canceled
    pumpAlive,          \* the fillBuffer thread is still in its loop
    request,            \* <<num>> while a caller is inside frame(num), else <<>>
    delivered,          \* the completed frame(num) calls: [num, image], in order
    \* ---- preview worker (gui/preview_thread.py) ----
    queue,              \* Worker.queue: preview requests, oldest first
    nextRequest,        \* number of preview requests created so far
    rendered,           \* requests that process() rendered
    dropped,            \* requests that process() took off the queue without rendering
    lastProcess,        \* what the last process() call saw and did
    \* ---- metaclass wrappers and ComponentError (component.py) ----
    lockedError,        \* per layer: Component._lockedError is set
    lockedProperties,   \* per layer: Component._lockedProperties is set
    prevErrors,         \* ComponentError.prevErrors
    lastTime,           \* ComponentError.lastTime
    now,                \* time.time(), in ticks
    errorsEmitted,      \* number of caller._error.emit calls
    lastWrapped,        \* the last call of a wrapped method and its outcome
    \* ---- tracked controls, presets, undo stack (component.py, mainwindow.py) ----
    resIndex,           \* index of the active resolution in Core.resolutions
    comps,              \* per layer: attributes, widgets, relative values, preset
    undoStack,          \* MainWindow.undoStack: the commands
    undoIndex,          \* QUndoStack index: commands below it are done
    presetFiles,        \* the preset directory: name -> saved value map
    savedPresets,       \* Core.savedPresets
    titleModified,      \* per layer: the title carries the modified mark
    history,            \* the user's operations on the controls, newest first
    opCount,            \* number of operations performed so far
    \* ---- main window (gui/mainwindow.py, gui/actions.py) ----
    pages,              \* MainWindow.pages: the page of each listed layer
    \* ---- Conway's Game of Life (components/life.py) ----
    startingGrid,       \* Component.startingGrid: the set of live cells
    tickRate,           \* Component.tickRate: frames per tick
    tickGrids,          \* Component.tickGrids: tick -> grid, once rendering started
    \* ---- relative value conversions (component.py) ----
    attrAxis,           \* kwargs['axis']: the axis length in pixels
    attrVal,            \* the fraction given to pixelValForAttr
    attrPixels,         \* <<result>> once pixelValForAttr returned, else <<>>
    attrFloat,          \* <<result>> once floatValForAttr returned, else <<>>
    \* ---- readAudioFile (toolkit/ffmpeg.py) ----
    coreCanceled,       \* Core.canceled, the process-wide flag
    audioPc,            \* where readAudioFile is: "idle", "loop" or "returned"
    pipe,               \* the decoder subprocess: "none", "running" or "exited"
    rawAudio,           \* chunks of decoder output not yet read from the pipe
    completeAudioArray, \* chunks appended to completeAudioArray
    progress,           \* the local progress
    duration,           \* the local duration, in seconds
    lastPercent,        \* the local lastPercent (-1: None)
    progressBar,        \* the percentages emitted to the video worker
    audioReturn,        \* <<>>, or <<what readAudioFile returned and where>>
    \* ---- what a project load switches off (mainwindow.py, preview_thread.py) ----
    currentProject,     \* MainWindow.currentProject is set
    pendingTasks,       \* newTask signals emitted and not yet delivered to the worker
    notified,           \* number of update/modified notifications layers emitted
    autosaveWrites,     \* number of times autosave wrote the autosave file
    autosaveOnDisk,     \* the autosave file exists
    gated,              \* the handlers that returned early during the current load
    \* ---- FfmpegVideo.threadError (toolkit/ffmpeg.py, components) ----
    threadError,        \* the class attribute: <<>> for None, or <<the error recorded>>
    exportNo,           \* the number of exports started so far
    video,              \* per layer: the layer's FfmpegVideo instance is alive
    lastRender          \* the last frameRender: layer, export, what it raised

coreVars    == <<selectedComponents, nextId, openingProject, lastCall>>
pumpVars    == <<stream, pipePos, frameNo, currentFrame, lastFrame, frameBuffer,
                 finishedFrames, canceled, pumpAlive, request, delivered>>
previewVars == <<queue, nextRequest, rendered, dropped, lastProcess>>
wrapVars    == <<lockedError, lockedProperties, prevErrors, lastTime, now,
                 errorsEmitted, lastWrapped>>
compVars    == <<resIndex, comps, undoStack, undoIndex, presetFiles,
                 savedPresets, titleModified, history>>
actVars     == <<pages>>
\* the variables of the subsystems modelled after the first five
lifeVars    == <<startingGrid, tickRate, tickGrids>>
\* the subsystems modelled after the main window's actions
convVars    == <<attrAxis, attrVal, attrPixels, attrFloat>>
audioVars   == <<coreCanceled, audioPc, pipe, rawAudio, completeAudioArray,
                 progress, duration, lastPercent, progressBar, audioReturn>>
gateVars    == <<currentProject, pendingTasks, notified, autosaveWrites,
                 autosaveOnDisk, gated>>
errVars     == <<threadError, exportNo, video, lastRender>>
moreVars    == <<convVars, audioVars, gateVars, errVars>>
laterVars   == <<lifeVars, moreVars>>
restVars    == <<actVars, laterVars>>
vars == <<coreVars, pumpVars, previewVars, wrapVars, compVars, opCount, restVars>>

Nil == "None"

\* Python values whose type the code tests
PyNone == [type |-> "NoneType"]
PyInt(i) == [type |-> "int", value |-> i]

(***************************************************************************)
(* Sequence helpers (Python list operations)                               *)
(***************************************************************************)
\* list.insert(i, x) for 0 <= i <= len(list)
ListInsert(s, i, x) == SubSeq(s, 1, i) \o <<x>> \o SubSeq(s, i + 1, Len(s))

\* list.pop(i) for 0 <= i < len(list): the list without element i
ListPop(s, i) == SubSeq(s, 1, i) \o SubSeq(s, i + 2, Len(s))

\* list(reversed(list))
Reversed(s) == [k \in 1..Len(s) |-> s[Len(s) + 1 - k]]


(***************************************************************************)
(* Core: the layer list                                                    *)
(***************************************************************************)
\* the literal in Core.insertComponent's length test
MaxComponents == 50

\* bounds of the layer-list model
MaxCoreOps == 3
MaxFileRecs == 2

\* Core.compNames (two of the component types) and a name no module has
CompNames == <<"Image", "Title Text">>
UnknownName == "Renamed Component"

\* Core.moduleIndexFor: the module index of a component name, or None
moduleIndexFor(compName) ==
    IF \E i \in 1..Len(CompNames) : CompNames[i] = compName
    THEN PyInt((CHOOSE i \in 1..Len(CompNames) : CompNames[i] = compName) - 1)
    ELSE PyNone

\* Component.__init__: a fresh instance; rec is the project-file record it
\* was created for (0 when it was not created by openProject)
NewComponent(id, moduleIndex, compPos, rec) ==
    [type |-> "Component", id |-> id, moduleIndex |-> moduleIndex,
     compPos |-> compPos, rec |-> rec]

\* Core.componentListChanged, with the renumbering left out
componentListChangedSkipped(list) == list

\* Core.componentListChanged: renumber every layer
componentListChanged(list) ==
    [i \in 1..Len(list) |-> [list[i] EXCEPT !.compPos = i - 1]]

\* Core.insertComponent(compPos, component, loader). component is a module
\* index (a new instance is constructed), an existing instance, or None
\* (moduleIndexFor found nothing: the attribute access raises).
\* Result: the new list, the return value, whether an exception was raised
\* instead, and the number of instances constructed.
insertComponent(list, compPos, component, ids, rec) ==
    LET pos == IF compPos < 0 \/ compPos > Len(list) THEN Len(list) ELSE compPos
    IN  IF Len(list) > MaxComponents
        THEN [list |-> list, ret |-> -1, raised |-> FALSE, ids |-> ids]
        ELSE IF component.type = "NoneType"
        THEN [list |-> list, ret |-> Nil, raised |-> TRUE, ids |-> ids]
        ELSE IF component.type = "int"
        THEN [list |-> componentListChanged(ListInsert(list, pos,
                          NewComponent(ids + 1, component.value, pos, rec))),
              ret |-> pos, raised |-> FALSE, ids |-> ids + 1]
        ELSE [list |-> componentListChanged(ListInsert(list, pos, component)),
              ret |-> pos, raised |-> FALSE, ids |-> ids]

\* Core.moveComponent(startI, endI)
moveComponent(list, startI, endI) ==
    componentListChanged(ListInsert(ListPop(list, startI), endI, list[startI + 1]))

\* Core.removeComponent(i)
removeComponent(list, i) == componentListChanged(ListPop(list, i))

\* Core.clearComponents()
clearComponents == componentListChanged(<<>>)

\* the for loop over data['Components'] in Core.openProject, from record k on
RECURSIVE LoadComponents(_, _, _, _)
LoadComponents(list, recs, k, ids) ==
    IF k > Len(recs)
    THEN [list |-> list, ids |-> ids, end |-> "done"]
    ELSE LET r == insertComponent(list, -1, moduleIndexFor(recs[k]), ids, k)
         IN  IF r.raised
             THEN [list |-> list, ids |-> ids, end |-> "AttributeError"]
             ELSE IF r.ret = -1
             THEN [list |-> list, ids |-> ids, end |-> "tooMany"]
             ELSE LoadComponents(r.list, recs, k + 1, r.ids)

\* Core.openProject(loader, filepath). file = [exists, parse, fields, recs]
\* where parse is parseAvFile's outcome ("ok", or the type of the exception it
\* caught) and fields the outcome of eval('loader.%s' % widget) over the
\* file's WindowFields ("ok", or the type of the exception raised).
\* isGui: the loader is the MainWindow, which has window and
\* createNewProject (which clears the list).
openProject(list, file, ids, isGui) ==
    IF ~file.exists
    THEN [list |-> list, ids |-> ids, ret |-> Nil, opening |-> FALSE]
    ELSE IF file.parse = "KeyError"
    THEN [list |-> list, ids |-> ids, ret |-> Nil, opening |-> FALSE]
    ELSE IF file.parse # "ok"
    THEN [list |-> IF isGui THEN clearComponents ELSE list,
          ids |-> ids, ret |-> "False", opening |-> FALSE]
    ELSE IF isGui /\ file.fields = "KeyError"
    THEN [list |-> list, ids |-> ids, ret |-> Nil, opening |-> TRUE]
    ELSE IF isGui /\ file.fields # "ok"
    THEN [list |-> clearComponents, ids |-> ids, ret |-> "False",
          opening |-> FALSE]
    ELSE LET r == LoadComponents(list, file.recs, 1, ids)
         IN  IF r.end = "AttributeError"
             THEN [list |-> IF isGui THEN clearComponents ELSE r.list,
                   ids |-> r.ids, ret |-> "False", opening |-> FALSE]
             ELSE [list |-> r.list, ids |-> r.ids, ret |-> "True", opening |-> FALSE]

\* the project files of the model
RECURSIVE SeqsUpTo(_, _)
SeqsUpTo(S, n) ==
    IF n = 0 THEN {<<>>}
    ELSE SeqsUpTo(S, n - 1) \cup
         {Append(s, x) : s \in {t \in SeqsUpTo(S, n - 1) : Len(t) = n - 1}, x \in S}

LongFile == [k \in 1..(MaxComponents + 2) |-> "Title Text"]

ProjectFiles ==
    {[exists |-> FALSE, parse |-> "ok", fields |-> "ok", recs |-> <<>>]} \cup
    {[exists |-> TRUE, parse |-> p, fields |-> "ok", recs |-> <<>>] :
        p \in {"KeyError", "SyntaxError"}} \cup
    {[exists |-> TRUE, parse |-> "ok", fields |-> f, recs |-> <<"Title Text">>] :
        f \in {"KeyError", "AttributeError"}} \cup
    {[exists |-> TRUE, parse |-> "ok", fields |-> "ok", recs |-> r] :
        r \in SeqsUpTo({"Title Text", "Image", UnknownName}, MaxFileRecs) \cup {LongFile}}

\* the list after n inserts of a Title Text layer at the end
Inserted(n) == [i \in 1..n |-> NewComponent(i, 1, i - 1, 0)]

InsertPositions == {-1, 0, 1}
EndPositions(list) == {0, Len(list) - 1} \cap (0..(Len(list) - 1))

\* one more operation of the layer-list model; the rest is untouched
CoreStep ==
    /\ opCount' = opCount + 1
    /\ UNCHANGED <<pumpVars, previewVars, wrapVars, compVars, restVars>>

CoreInit ==
    /\ \E n \in {0, 2, MaxComponents} :
          /\ selectedComponents = Inserted(n)
          /\ nextId = n
    /\ openingProject = FALSE
    /\ lastCall = [op |-> "init", ret |-> Nil, recs |-> <<>>]

\* Core.insertComponent called with a module index (an added layer)
CoreInsertComponent ==
    \E compPos \in InsertPositions, m \in 0..(Len(CompNames) - 1) :
        LET r == insertComponent(selectedComponents, compPos, PyInt(m), nextId, 0)
        IN  /\ opCount < MaxCoreOps
            /\ selectedComponents' = r.list
            /\ nextId' = r.ids
            /\ lastCall' = [op |-> "insertComponent", ret |-> r.ret, recs |-> <<>>]
            /\ UNCHANGED openingProject
            /\ CoreStep

CoreMoveComponent ==
    \E startI \in EndPositions(selectedComponents),
       endI \in EndPositions(selectedComponents) :
        /\ opCount < MaxCoreOps
        /\ selectedComponents' = moveComponent(selectedComponents, startI, endI)
        /\ lastCall' = [op |-> "moveComponent", ret |-> endI, recs |-> <<>>]
        /\ UNCHANGED <<nextId, openingProject>>
        /\ CoreStep

CoreRemoveComponent ==
    \E i \in EndPositions(selectedComponents) :
        /\ opCount < MaxCoreOps
        /\ selectedComponents' = removeComponent(selectedComponents, i)
        /\ lastCall' = [op |-> "removeComponent", ret |-> Nil, recs |-> <<>>]
        /\ UNCHANGED <<nextId, openingProject>>
        /\ CoreStep

CoreClearComponents ==
    /\ opCount < MaxCoreOps
    /\ selectedComponents' = clearComponents
    /\ lastCall' = [op |-> "clearComponents", ret |-> Nil, recs |-> <<>>]
    /\ UNCHANGED <<nextId, openingProject>>
    /\ CoreStep

\* MainWindow.openProject(filepath): clear(), then Core.openProject
GuiOpenProject ==
    \E file \in ProjectFiles :
        LET r == openProject(clearComponents, file, nextId, TRUE)
        IN  /\ opCount < MaxCoreOps
            /\ file.exists
            /\ selectedComponents' = r.list
            /\ nextId' = r.ids
            /\ openingProject' = r.opening
            /\ lastCall' = [op |-> "MainWindow.openProject", ret |-> r.ret,
                            recs |-> file.recs]
            /\ CoreStep

\* Command._handle_project_file: Core.openProject, then the list is reversed.
\* parseArgs calls it first, on the fresh Core.
CommandOpenProject ==
    \E file \in ProjectFiles :
        LET r == openProject(selectedComponents, file, nextId, FALSE)
        IN  /\ opCount = 0
            /\ nextId = 0
            /\ selectedComponents' = componentListChanged(Reversed(r.list))
            /\ nextId' = r.ids
            /\ openingProject' = r.opening
            /\ lastCall' = [op |-> "Command._handle_project_file", ret |-> r.ret,
                            recs |-> file.recs]
            /\ CoreStep


\* Command.createAudioVisualization up to the second reversal of the list
CreateAudioVisualization ==
    LET r == IF Len(selectedComponents) = 0
             THEN insertComponent(selectedComponents, 0, PyInt(0), nextId, 0)
             ELSE [list |-> selectedComponents, ids |-> nextId]
    IN  /\ opCount < MaxCoreOps
        /\ lastCall.op # "Command.createAudioVisualization"
        /\ selectedComponents' = componentListChanged(Reversed(r.list))
        /\ nextId' = r.ids
        /\ lastCall' = [op |-> "Command.createAudioVisualization", ret |-> Nil,
                        recs |-> lastCall.recs]
        /\ UNCHANGED openingProject
        /\ CoreStep

CoreNext ==
    \/ CoreInsertComponent
    \/ CoreMoveComponent
    \/ CoreRemoveComponent
    \/ CoreClearComponents
    \/ GuiOpenProject
    \/ CommandOpenProject
    \/ CreateAudioVisualization

\* the other subsystems at rest
CoreIdle ==
    /\ selectedComponents = <<>>
    /\ nextId = 0
    /\ openingProject = FALSE
    /\ lastCall = [op |-> "init", ret |-> Nil, recs |-> <<>>]

PumpIdle ==
    /\ stream = <<>>
    /\ pipePos = 0
    /\ frameNo = -1
    /\ currentFrame = 0
    /\ lastFrame = 0
    /\ frameBuffer = {}
    /\ finishedFrames = {}
    /\ canceled = FALSE
    /\ pumpAlive = FALSE
    /\ request = <<>>
    /\ delivered = <<>>

PreviewIdle ==
    /\ queue = <<>>
    /\ nextRequest = 0
    /\ rendered = <<>>
    /\ dropped = {}
    /\ lastProcess = [seen |-> <<>>, rendered |-> <<>>, left |-> <<>>]

WrapIdle ==
    /\ lockedError = {}
    /\ lockedProperties = {}
    /\ prevErrors = <<>>
    /\ lastTime = 0
    /\ now = 0
    /\ errorsEmitted = 0
    /\ lastWrapped = [layer |-> 0, method |-> Nil, raised |-> "none",
                      propagated |-> FALSE, result |-> Nil]

CompIdle ==
    /\ resIndex = 1
    /\ comps = <<>>
    /\ undoStack = <<>>
    /\ undoIndex = 0
    /\ presetFiles = <<>>
    /\ savedPresets = <<>>
    /\ titleModified = <<>>
    /\ history = <<>>

ActIdle == pages = <<>>

LifeIdle ==
    /\ startingGrid = {}
    /\ tickRate = 1
    /\ tickGrids = <<>>

ConvIdle ==
    /\ attrAxis = 1
    /\ attrVal = [n |-> 0, d |-> 1]
    /\ attrPixels = <<>>
    /\ attrFloat = <<>>

AudioIdle ==
    /\ coreCanceled = FALSE
    /\ audioPc = "idle"
    /\ pipe = "none"
    /\ rawAudio = 0
    /\ completeAudioArray = 0
    /\ progress = 0
    /\ duration = 0
    /\ lastPercent = -1
    /\ progressBar = <<>>
    /\ audioReturn = <<>>

GateIdle ==
    /\ currentProject = FALSE
    /\ pendingTasks = 0
    /\ notified = 0
    /\ autosaveWrites = 0
    /\ autosaveOnDisk = FALSE
    /\ gated = {}

ErrIdle ==
    /\ threadError = <<>>
    /\ exportNo = 0
    /\ video = <<>>
    /\ lastRender = <<>>

MoreIdle == ConvIdle /\ AudioIdle /\ GateIdle /\ ErrIdle

LaterIdle == LifeIdle /\ MoreIdle

RestIdle == ActIdle /\ LaterIdle

InitLayers ==
    /\ CoreInit /\ PumpIdle /\ PreviewIdle /\ WrapIdle /\ CompIdle /\ RestIdle
    /\ opCount = 0

SpecLayers == InitLayers /\ [][CoreNext]_vars

\* the last call was a successful project open
ProjectOpened ==
    /\ lastCall.op \in {"MainWindow.openProject", "Command._handle_project_file"}
    /\ lastCall.ret = "True"
    /\ Len(selectedComponents) = Len(lastCall.recs)

(* C3: the layer list never holds more than 50 layers (an insertComponent   *)
(* call on a list of 50 layers returns -1 and leaves the list unchanged).  *)
C3_NeverMoreThanFifty == Len(selectedComponents) <= MaxComponents

(* C4: after every insertComponent, moveComponent, removeComponent or      *)
(* clearComponents call returns, selectedComponents[i].compPos = i for     *)
(* every index i of the layer list.                                        *)
C4_CompPosIsIndex ==
    \A i \in 1..Len(selectedComponents) : selectedComponents[i].compPos = i - 1

\* a move that took the first layer to the end of a list of two or more
C4_Witness ==
    /\ lastCall.op = "moveComponent"
    /\ Len(selectedComponents) >= 2
    /\ selectedComponents[Len(selectedComponents)].id = 1
    /\ selectedComponents[Len(selectedComponents)].compPos = Len(selectedComponents) - 1

(* C9: after a project file is opened the layer list is the reverse of the *)
(* file's component records: the last record is at position 0 and the      *)
(* first record at the last position.                                      *)
C9_ReversedFileOrder ==
    ProjectOpened =>
        \A i \in 1..Len(selectedComponents) :
            selectedComponents[i].rec = Len(lastCall.recs) + 1 - i


(***************************************************************************)
(* FfmpegVideo: the frame pump (fillBuffer) and the accessor frame(num)    *)
(***************************************************************************)
\* bounds of the pump model
MaxStream == 3
MaxFrameNo == 5
FrameRate == 3

\* b'' and the n-th chunk (0-based) the encoder writes
EmptyBytes == 0
Chunk(n) == n + 1

\* FfmpegVideo.__init__: the fields before the thread starts
PumpInit ==
    /\ \E k \in 1..MaxStream : stream = [n \in 1..k |-> Chunk(n - 1)]
    /\ pipePos = 0
    /\ frameNo = -1
    /\ currentFrame = EmptyBytes
    /\ lastFrame = EmptyBytes
    /\ frameBuffer = {}
    /\ finishedFrames = {}
    /\ canceled = FALSE
    /\ pumpAlive = TRUE
    /\ request = <<>>
    /\ delivered = <<>>

\* self.pipe.stdout.read(self.chunkSize): the next chunk, b'' at end of stream
PipeRead == IF pipePos < Len(stream) THEN stream[pipePos + 1] ELSE EmptyBytes

\* PriorityQueue.put blocks while the queue holds maxsize entries
BufferHasRoom == Cardinality(frameBuffer) < FrameRate

\* PriorityQueue.get: the smallest (index, bytes) entry
BufferMin ==
    CHOOSE e \in frameBuffer :
        \A f \in frameBuffer :
            \/ e[1] < f[1]
            \/ e[1] = f[1] /\ e[2] <= f[2]

PumpStep == UNCHANGED <<coreVars, previewVars, wrapVars, compVars, opCount, restVars>>

\* one iteration of the while loop of FfmpegVideo.fillBuffer
FillBuffer ==
    /\ pumpAlive
    /\ frameNo < MaxFrameNo
    /\ IF canceled
       THEN /\ pumpAlive' = FALSE
            /\ UNCHANGED <<frameNo, currentFrame, lastFrame, frameBuffer, pipePos>>
       ELSE IF currentFrame = EmptyBytes
       THEN /\ BufferHasRoom
            /\ frameNo' = frameNo + 1
            /\ frameBuffer' = frameBuffer \cup {<<frameNo' - 1, lastFrame>>}
            /\ UNCHANGED <<pumpAlive, currentFrame, lastFrame, pipePos>>
       ELSE /\ frameNo' = frameNo + 1
            /\ currentFrame' = PipeRead
            /\ pipePos' = IF pipePos < Len(stream) THEN pipePos + 1 ELSE pipePos
            /\ IF currentFrame' # EmptyBytes
               THEN /\ BufferHasRoom
                    /\ frameBuffer' = frameBuffer \cup {<<frameNo', currentFrame'>>}
                    /\ lastFrame' = currentFrame'
               ELSE UNCHANGED <<frameBuffer, lastFrame>>
            /\ UNCHANGED pumpAlive
    /\ UNCHANGED <<stream, finishedFrames, canceled, request, delivered>>
    /\ PumpStep

\* the index of the last completed frame(num) call
LastRequested == IF Len(delivered) = 0 THEN 0 ELSE delivered[Len(delivered)].num

\* a caller enters frame(num); indices are requested in non-decreasing order
FrameCall ==
    /\ request = <<>>
    /\ \E num \in {LastRequested, LastRequested + 1} :
          /\ Len(delivered) = 0 => num = 0
          /\ num <= MaxFrameNo
          /\ request' = <<num>>
    /\ UNCHANGED <<stream, pipePos, frameNo, currentFrame, lastFrame, frameBuffer,
                   finishedFrames, canceled, pumpAlive, delivered>>
    /\ PumpStep

\* one iteration of the while loop of FfmpegVideo.frame
FrameLoop ==
    /\ request # <<>>
    /\ IF \E e \in finishedFrames : e[1] = request[1]
       THEN LET e == CHOOSE e \in finishedFrames : e[1] = request[1]
            IN  /\ finishedFrames' = finishedFrames \ {e}
                /\ delivered' = Append(delivered, [num |-> request[1], image |-> e[2]])
                /\ request' = <<>>
                /\ UNCHANGED frameBuffer
       ELSE /\ frameBuffer # {}
            /\ frameBuffer' = frameBuffer \ {BufferMin}
            /\ finishedFrames' =
                  {e \in finishedFrames : e[1] # BufferMin[1]} \cup {BufferMin}
            /\ UNCHANGED <<request, delivered>>
    /\ UNCHANGED <<stream, pipePos, frameNo, currentFrame, lastFrame, canceled,
                   pumpAlive>>
    /\ PumpStep

\* the export is cancelled: parent.canceled becomes True
Cancel ==
    /\ ~canceled
    /\ canceled' = TRUE
    /\ UNCHANGED <<stream, pipePos, frameNo, currentFrame, lastFrame, frameBuffer,
                   finishedFrames, pumpAlive, request, delivered>>
    /\ PumpStep

PumpNext == FillBuffer \/ FrameCall \/ FrameLoop \/ Cancel

InitPump ==
    /\ PumpInit /\ CoreIdle /\ PreviewIdle /\ WrapIdle /\ CompIdle /\ RestIdle
    /\ opCount = 0

SpecPump == InitPump /\ [][PumpNext]_vars

(* C5: when indices are requested in non-decreasing order from 0, frame(n) *)
(* returns the n-th chunk the encoder wrote, for every n below the number  *)
(* of complete frames in the stream.                                       *)
C5_FrameIsNthChunk ==
    \A j \in 1..Len(delivered) :
        delivered[j].num < Len(stream) =>
            delivered[j].image = stream[delivered[j].num + 1]

(* C6: once the stream is exhausted after k >= 1 complete frames, frame(n) *)
(* returns the data of frame k - 1 for every n >= k.                       *)
C6_LastFrameHeld ==
    \A j \in 1..Len(delivered) :
        delivered[j].num >= Len(stream) =>
            delivered[j].image = stream[Len(stream)]


(***************************************************************************)
(* Preview worker: createPreviewImage and process                          *)
(***************************************************************************)
\* bound of the preview model: preview requests created
MaxRequests == 4

PreviewInit ==
    /\ queue = <<>>
    /\ nextRequest = 0
    /\ rendered = <<>>
    /\ dropped = {}
    /\ lastProcess = [seen |-> <<>>, rendered |-> <<>>, left |-> <<>>]

PreviewStep ==
    UNCHANGED <<selectedComponents, nextId, lastCall, pumpVars, wrapVars, compVars,
                opCount, restVars>>

\* Worker.createPreviewImage(components): disabled while a project is opening
CreatePreviewImage ==
    /\ nextRequest < MaxRequests
    /\ nextRequest' = nextRequest + 1
    /\ queue' = IF openingProject THEN queue ELSE Append(queue, nextRequest')
    /\ UNCHANGED <<rendered, dropped, lastProcess, openingProject>>
    /\ PreviewStep

\* the request process() takes with the newest one instead
NewestPreviewInformation(q) == q[Len(q)]

\* nextPreviewInformation = self.queue.get(block=False): the oldest request
NextPreviewInformation(q) == Head(q)

\* while self.queue.qsize() >= 2: self.queue.get(block=False)
RECURSIVE DrainQueue(_)
DrainQueue(q) == IF Len(q) >= 2 THEN DrainQueue(Tail(q)) ELSE q

\* Worker.process(): a timer tick of the preview thread
Process ==
    /\ IF Len(queue) = 0
       THEN /\ lastProcess' = [seen |-> <<>>, rendered |-> <<>>, left |-> <<>>]
            /\ UNCHANGED <<queue, rendered, dropped>>
       ELSE LET next == NextPreviewInformation(queue)
                rest == Tail(queue)
                left == DrainQueue(rest)
            IN  /\ queue' = left
                /\ rendered' = Append(rendered, next)
                /\ dropped' = dropped \cup
                      {rest[i] : i \in 1..(Len(rest) - Len(left))}
                /\ lastProcess' = [seen |-> queue, rendered |-> <<next>>,
                                   left |-> left]
    /\ UNCHANGED <<nextRequest, openingProject>>
    /\ PreviewStep

\* Core.openProject on the main thread sets openingProject and resets it
\* when it is done, while the preview thread runs
OpeningProjectChanges ==
    /\ openingProject' = ~openingProject
    /\ UNCHANGED previewVars
    /\ PreviewStep

PreviewNext == CreatePreviewImage \/ Process \/ OpeningProjectChanges

InitPreview ==
    /\ PreviewInit /\ CoreIdle /\ PumpIdle /\ WrapIdle /\ CompIdle /\ RestIdle
    /\ opCount = 0

SpecPreview == InitPreview /\ [][PreviewNext]_vars

(* C7 as stated: when process() runs with more than one request queued it  *)
(* renders the most recently queued request (and discards every older one).*)
C7_RendersNewest ==
    Len(lastProcess.seen) > 1 =>
        lastProcess.rendered = <<lastProcess.seen[Len(lastProcess.seen)]>>

(* C7 as amended: when process() runs with more than one request queued it  *)
(* renders the oldest one, leaves only the newest one queued for the next  *)
(* cycle, and every request between them is discarded: a discarded request *)
(* is never rendered and never queued again.                               *)
C7_RendersOldestKeepsNewest ==
    /\ Len(lastProcess.seen) > 1 =>
          /\ lastProcess.rendered = <<lastProcess.seen[1]>>
          /\ lastProcess.left = <<lastProcess.seen[Len(lastProcess.seen)]>>
          /\ \A i \in 2..(Len(lastProcess.seen) - 1) : lastProcess.seen[i] \in dropped
    /\ \A r \in dropped :
          /\ \A i \in 1..Len(rendered) : rendered[i] # r
          /\ \A i \in 1..Len(queue) : queue[i] # r

\* a process() call that found three or more requests, and a later one
C7_Witness ==
    /\ Len(lastProcess.seen) >= 3
    /\ Len(rendered) >= 2
    /\ dropped # {}


(***************************************************************************)
(* ComponentMetaclass: the wrappers around a layer's methods, and          *)
(* ComponentError                                                          *)
(***************************************************************************)
\* bounds of the wrapper model
NumLayers == 2
MaxWrapOps == 3
MaxTime == 3

\* the model's clock ticks twice a second: the 1.0 of ComponentError.__init__
TicksPerSecond == 2

Layers == 1..NumLayers

\* what a layer's own implementation does when called: it returns, raises an
\* ordinary exception, or raises a ComponentError made earlier (threadError)
Raises == {"none", "ValueError", "ComponentError"}

\* the methods ComponentMetaclass.__new__ decorates that the model calls
WrappedMethods == {"previewRender", "properties", "preFrameRender", "update",
                   "loadPreset"}

\* e.__class__.__name__.startswith('Component')
NameStartsWithComponent(exc) == exc = "ComponentError"

\* isinstance(e, ComponentError)
IsComponentError(exc) == exc = "ComponentError"

\* the outcome of a wrapped call: what the caller gets, and the name of the
\* ComponentError the wrapper constructed (<<>> when it constructed none)
Outcome(propagated, result, constructed) ==
    [propagated |-> propagated, result |-> result, constructed |-> constructed]

\* renderWrapper without the inner try: the exception reaches the caller
renderWrapperUncaught(exc) ==
    IF exc = "none" THEN Outcome(FALSE, "frame", <<>>)
    ELSE Outcome(TRUE, Nil, <<>>)

\* ComponentMetaclass.renderWrapper
renderWrapper(exc) ==
    IF exc = "none" THEN Outcome(FALSE, "frame", <<>>)
    ELSE IF NameStartsWithComponent(exc)
    THEN IF IsComponentError(exc)
         THEN Outcome(FALSE, "BlankFrame", <<>>)
         ELSE Outcome(TRUE, Nil, <<>>)
    ELSE Outcome(FALSE, "BlankFrame", <<"renderer">>)

\* ComponentMetaclass.initializationWrapper (around preFrameRender)
initializationWrapper(exc) ==
    IF exc = "none" THEN Outcome(FALSE, "value", <<>>)
    ELSE Outcome(FALSE, Nil, <<"initialization process">>)

\* ComponentMetaclass.propertiesWrapper
propertiesWrapper(locked, exc) ==
    IF locked THEN Outcome(FALSE, "_lockedProperties", <<>>)
    ELSE IF exc = "none" THEN Outcome(FALSE, "value", <<>>)
    ELSE Outcome(FALSE, "[]", <<"properties">>)

\* ComponentMetaclass.loadPresetWrapper
loadPresetWrapper(exc) ==
    IF exc = "none" THEN Outcome(FALSE, "value", <<>>)
    ELSE Outcome(FALSE, Nil, <<"preset loader">>)

\* ComponentMetaclass.updateWrapper
updateWrapper(exc) ==
    IF exc = "none" THEN Outcome(FALSE, "value", <<>>)
    ELSE Outcome(FALSE, Nil, <<"update method">>)

\* the decorated method: ComponentMetaclass.__new__ picks the wrapper
Wrapped(layer, method, exc) ==
    IF method = "previewRender" THEN renderWrapper(exc)
    ELSE IF method = "preFrameRender" THEN initializationWrapper(exc)
    ELSE IF method = "properties"
    THEN propertiesWrapper(layer \in lockedProperties, exc)
    ELSE IF method = "loadPreset" THEN loadPresetWrapper(exc)
    ELSE updateWrapper(exc)

\* ComponentError.__init__(caller, name): the class-level record of recent
\* errors, and whether this one is reported (lockError and _error.emit)
ComponentErrorInit(name) ==
    LET popped == IF Len(prevErrors) > 1
                  THEN SubSeq(prevErrors, 1, Len(prevErrors) - 1)
                  ELSE prevErrors
        errors == <<name>> \o popped
        repeated == /\ \E i \in 2..Len(errors) : errors[i] = name
                    /\ now - lastTime < TicksPerSecond
    IN  [prevErrors |-> errors,
         lastTime |-> IF repeated THEN lastTime ELSE now,
         reported |-> ~repeated]

WrapInit ==
    /\ lockedError = {}
    /\ lockedProperties = {}
    /\ prevErrors = <<>>
    /\ lastTime = 0
    /\ now = 0
    /\ errorsEmitted = 0
    /\ lastWrapped = [layer |-> 0, method |-> Nil, raised |-> "none",
                      propagated |-> FALSE, result |-> Nil]

WrapStep == UNCHANGED <<coreVars, pumpVars, previewVars, compVars, restVars>>

\* a caller calls a decorated method of a layer
CallWrapped ==
    \E layer \in Layers, method \in WrappedMethods, exc \in Raises :
        LET out == Wrapped(layer, method, exc)
            err == IF out.constructed = <<>>
                   THEN [prevErrors |-> prevErrors, lastTime |-> lastTime,
                         reported |-> FALSE]
                   ELSE ComponentErrorInit(out.constructed[1])
        IN  /\ opCount < MaxWrapOps
            /\ opCount' = opCount + 1
            /\ prevErrors' = err.prevErrors
            /\ lastTime' = err.lastTime
            /\ lockedError' = IF err.reported THEN lockedError \cup {layer}
                              ELSE lockedError
            /\ errorsEmitted' = IF err.reported THEN errorsEmitted + 1
                                ELSE errorsEmitted
            /\ lastWrapped' = [layer |-> layer, method |-> method,
                               raised |-> IF method = "properties"
                                             /\ layer \in lockedProperties
                                          THEN "none" ELSE exc,
                               propagated |-> out.propagated,
                               result |-> out.result]
            /\ UNCHANGED <<lockedProperties, now>>
            /\ WrapStep

\* Component.lockProperties(propList)
LockProperties ==
    \E layer \in Layers :
        /\ opCount < MaxWrapOps
        /\ opCount' = opCount + 1
        /\ layer \notin lockedProperties
        /\ lockedProperties' = lockedProperties \cup {layer}
        /\ UNCHANGED <<lockedError, prevErrors, lastTime, now, errorsEmitted,
                       lastWrapped>>
        /\ WrapStep

\* Component.reset(): unlockProperties and unlockError
Reset ==
    \E layer \in Layers :
        /\ opCount < MaxWrapOps
        /\ opCount' = opCount + 1
        /\ layer \in lockedProperties \cup lockedError
        /\ lockedProperties' = lockedProperties \ {layer}
        /\ lockedError' = lockedError \ {layer}
        /\ UNCHANGED <<prevErrors, lastTime, now, errorsEmitted, lastWrapped>>
        /\ WrapStep

\* half a second passes
Tick ==
    /\ now < MaxTime
    /\ now' = now + 1
    /\ UNCHANGED <<lockedError, lockedProperties, prevErrors, lastTime,
                   errorsEmitted, lastWrapped, opCount>>
    /\ WrapStep

WrapNext == CallWrapped \/ LockProperties \/ Reset \/ Tick

InitWrap ==
    /\ WrapInit /\ CoreIdle /\ PumpIdle /\ PreviewIdle /\ CompIdle /\ RestIdle
    /\ opCount = 0

SpecWrap == InitWrap /\ [][WrapNext]_vars

(* C8: an exception raised inside a layer's previewRender, properties,     *)
(* preFrameRender, update or loadPreset never reaches the caller:          *)
(* previewRender returns a blank frame, properties an empty list and the   *)
(* other three return nothing.                                             *)
C8_ExceptionsContained ==
    lastWrapped.raised # "none" =>
        /\ ~lastWrapped.propagated
        /\ lastWrapped.method = "previewRender" => lastWrapped.result = "BlankFrame"
        /\ lastWrapped.method = "properties" => lastWrapped.result = "[]"
        /\ lastWrapped.method \in {"preFrameRender", "update", "loadPreset"}
              => lastWrapped.result = Nil

\* previewRender raised, the caller got a blank frame and the error was shown
C8_Witness ==
    /\ lastWrapped.method = "previewRender"
    /\ lastWrapped.raised = "ValueError"
    /\ lastWrapped.result = "BlankFrame"
    /\ lastWrapped.layer \in lockedError
    /\ errorsEmitted >= 1


(***************************************************************************)
(* Relative values: IEEE-754 doubles that are quotients of two integers    *)
(***************************************************************************)
RECURSIVE Gcd(_, _)
Gcd(a, b) == IF b = 0 THEN a ELSE Gcd(b, a % b)

\* the double nearest to n / d, written in lowest terms: two such doubles
\* are equal exactly when the fractions are (n >= 0, 0 < d < 2^11)
Float(n, d) ==
    IF n = 0 THEN [n |-> 0, d |-> 1]
    ELSE [n |-> n \div Gcd(n, d), d |-> d \div Gcd(n, d)]

RECURSIVE Pow2(_)
Pow2(k) == IF k = 0 THEN 1 ELSE 2 * Pow2(k - 1)

\* 2^k modulo d
RECURSIVE Pow2Mod(_, _)
Pow2Mod(k, d) == IF k = 0 THEN 1 % d ELSE (2 * Pow2Mod(k - 1, d)) % d

\* floor(log2(n / d)) for n, d > 0: the exponent of the double
RECURSIVE Log2Up(_, _, _)
Log2Up(n, d, e) == IF 2 * d * Pow2(e) <= n THEN Log2Up(n, d, e + 1) ELSE e
RECURSIVE Log2Down(_, _, _)
Log2Down(n, d, k) == IF n * Pow2(k) >= d THEN k ELSE Log2Down(n, d, k + 1)
Exponent(n, d) == IF n >= d THEN Log2Up(n, d, 0) ELSE 0 - Log2Down(n, d, 1)

\* the remainder of n * 2^(52 - e) modulo d, where e is the exponent of
\* n / d: zero when n / d is a double, more than d / 2 when the 53-bit
\* significand of the double was rounded up
RoundingRemainder(n, d) ==
    ((n % d) * Pow2Mod(52 - Exponent(n, d), d)) % d

\* math.ceil(axis * val) in double arithmetic, val the double of f.n / f.d.
\* When axis * f.n / f.d is not an integer the errors are far too small to
\* matter; when it is an integer p, the result is p + 1 if val was rounded up
\* by more than half the spacing of doubles at p.
CeilOfProduct(axis, f) ==
    LET exact == (axis * f.n) \div f.d
        rem == RoundingRemainder(f.n, f.d)
    IN  IF f.n = 0 THEN 0
        ELSE IF (axis * f.n) % f.d # 0 THEN exact + 1
        ELSE IF /\ 2 * rem > f.d
                /\ axis * (f.d - rem) >
                      f.d * Pow2(Exponent(exact, 1) - Exponent(f.n, f.d) - 1)
        THEN exact + 1
        ELSE exact

\* the error of the double of f, as a signed multiple of
\* 1 / (f.d * 2^(52 - e)), e the exponent of the double
RoundingError(f) ==
    IF f.n = 0 THEN 0
    ELSE LET rem == RoundingRemainder(f.n, f.d)
         IN  IF 2 * rem > f.d THEN f.d - rem ELSE 0 - rem

\* the double of x was rounded further up than the double of y
ErrorGreater(x, y) ==
    IF x.n = 0 THEN RoundingError(y) < 0
    ELSE IF y.n = 0 THEN RoundingError(x) > 0
    ELSE LET ex == 52 - Exponent(x.n, x.d)
             ey == 52 - Exponent(y.n, y.d)
             m == IF ex < ey THEN ex ELSE ey
         IN  RoundingError(x) * y.d * Pow2(ey - m)
                > RoundingError(y) * x.d * Pow2(ex - m)

\* double(x) - double(y) > 1 / a, for the doubles of two fractions
ExceedsByMoreThan(x, y, a) ==
    LET lhs == a * x.n * y.d
        rhs == a * y.n * x.d + x.d * y.d
    IN  lhs > rhs \/ (lhs = rhs /\ ErrorGreater(x, y))


\* ---------------------------------------------------------------------
\* Tracked controls of a layer (component.py), the undo stack of the main
\* window and the presets.  A layer is the Title Text component reduced to
\* one control of each kind that trackWidgets distinguishes: a colour line
\* edit (textColor), a plain control (alignment) and a relative spin box
\* (yPosition, scaled by the output height).
\* ---------------------------------------------------------------------
MaxCompOps == 4
NumControlLayers == 1
ControlLayers == 1..NumControlLayers
UndoLimit == 10

\* the heights of Core.resolutions
resolutions == <<1080, 720, 480>>
height(r) == resolutions[r + 1]

TrackedWidgets == {"textColor", "alignment", "yPosition"}
ColorWidgets == {"textColor"}
RelativeWidgets == {"yPosition"}

\* the text of a colour line edit, and the tuple the component keeps
White == <<255, 255, 255>>
Black == <<0, 0, 0>>
ColorText(rgb) == [r |-> rgb[1], g |-> rgb[2], b |-> rgb[3]]
InvalidText == [r |-> 256, g |-> 0, b |-> 0]
rgbFromString(text) ==
    IF \A v \in {text.r, text.g, text.b} : 0 <= v /\ v <= 255
    THEN <<text.r, text.g, text.b>>
    ELSE White

pixelValForAttrUnclamped(axis, val) == CeilOfProduct(axis, val)

pixelValForAttr(axis, val) ==
    IF val.n > 50 * val.d THEN CeilOfProduct(axis, Float(50, 1))
    ELSE CeilOfProduct(axis, val)

floatValForAttr(axis, val) == Float(val, axis)

\* self.oldAttrs: None, or the relative attributes a command recorded
NoOldAttrs == [none |-> TRUE]
OldAttrs(vals) == [none |-> FALSE, vals |-> vals]
getOldAttr(c, oldAttrs, attr) ==
    IF oldAttrs.none THEN c.attrs[attr] ELSE oldAttrs.vals[attr]

updateRelativeWidget(c, attr, oldAttrs, h) ==
    LET oldUserValue == getOldAttr(c, oldAttrs, attr)
        newUserValue == c.widgets[attr]
        newRelativeVal == floatValForAttr(h, newUserValue)
        oldRelativeVal == c.relativeValues[attr]
        c1 == IF oldUserValue = newUserValue /\ oldRelativeVal # newRelativeVal
              THEN [c EXCEPT !.widgets[attr] = pixelValForAttr(h, oldRelativeVal)]
              ELSE c
    IN  IF oldUserValue # newUserValue
        THEN [c1 EXCEPT !.relativeValues[attr] = newRelativeVal]
        ELSE c1

\* RelativeWidgets has the one element
preUpdate(c, oldAttrs, h) == updateRelativeWidget(c, "yPosition", oldAttrs, h)

setAttrs(c, attrDict) ==
    [c EXCEPT !.attrs = [a \in TrackedWidgets |->
        IF a \in ColorWidgets THEN rgbFromString(attrDict[a]) ELSE attrDict[a]]]

autoUpdate(c) == setAttrs(c, c.widgets)

\* update(auto=True): _preUpdate, then _autoUpdate
update(c, oldAttrs, h) == autoUpdate(preUpdate(c, oldAttrs, h))

savePreset(c) ==
    [textColor |-> c.attrs.textColor, alignment |-> c.attrs.alignment,
     yPosition |-> c.relativeValues.yPosition]

\* savePreset() with the 'preset' key added, as every caller does
PresetStore(c, name) ==
    [textColor |-> c.attrs.textColor, alignment |-> c.attrs.alignment,
     yPosition |-> c.relativeValues.yPosition, preset |-> name]

\* the modified mark of the title, given a preset dict or a boolean
updateComponentTitle(c, presetStore, saved) ==
    LET name == presetStore.preset
        modified == IF name = Nil \/ name \notin DOMAIN saved THEN FALSE
                    ELSE presetStore # saved[name]
    IN  c.currentPreset # Nil /\ modified
forceComponentTitle(c, modified) == c.currentPreset # Nil /\ modified

\* the title after _sendUpdateSignal of a layer
sendUpdateSignal(c, saved, opening, old) ==
    IF opening THEN old
    ELSE updateComponentTitle(c, PresetStore(c, c.currentPreset), saved)


\* ---- undo commands ----
\* ComponentUpdate.id_ of a mergeable update: the sum of ord() over the
\* attribute's name
AttrId == [textColor |-> 964, alignment |-> 959, yPosition |-> 974]

NewWidgetVals(c) ==
    [a \in TrackedWidgets |->
        IF a \in ColorWidgets THEN rgbFromString(c.widgets[a]) ELSE c.widgets[a]]

\* ComponentUpdate.__init__; relativeWidgetValsAfterRedo does not exist
\* until the first redo() assigns it
ComponentUpdate(layer, c, oldWidgetVals, modifiedVals, mergeUndo, h) ==
    [type |-> "ComponentUpdate", layer |-> layer, undone |-> FALSE,
     oldWidgetVals |-> [a \in DOMAIN modifiedVals |->
        IF a \in RelativeWidgets THEN floatValForAttr(h, oldWidgetVals[a])
        ELSE oldWidgetVals[a]],
     modifiedVals |-> [a \in DOMAIN modifiedVals |->
        IF a \in RelativeWidgets THEN floatValForAttr(h, modifiedVals[a])
        ELSE modifiedVals[a]],
     relativeWidgetValsAfterUndo |-> [a \in RelativeWidgets |-> c.attrs[a]],
     relativeWidgetValsAfterRedo |-> [a \in RelativeWidgets |-> c.attrs[a]],
     id_ |-> IF Cardinality(DOMAIN modifiedVals) = 1 /\ mergeUndo
             THEN AttrId[CHOOSE a \in DOMAIN modifiedVals : TRUE]
             ELSE -1]

mergeWith(cur, other) ==
    [cur EXCEPT !.modifiedVals =
        [a \in DOMAIN cur.modifiedVals \cup DOMAIN other.modifiedVals |->
            IF a \in DOMAIN other.modifiedVals THEN other.modifiedVals[a]
            ELSE cur.modifiedVals[a]]]

\* ComponentUpdate.setWidgetValues, then Component.setWidgetValues
setWidgetValues(c, attrDict, h) ==
    [c EXCEPT !.widgets = [a \in TrackedWidgets |->
        IF a \notin DOMAIN attrDict THEN c.widgets[a]
        ELSE IF a \in RelativeWidgets THEN pixelValForAttr(h, attrDict[a])
        ELSE IF a \in ColorWidgets THEN ColorText(attrDict[a])
        ELSE attrDict[a]]]

redo(cmd, c, h) ==
    LET c1 == update(setWidgetValues(c, cmd.modifiedVals, h),
                     OldAttrs(cmd.relativeWidgetValsAfterUndo), h)
    IN  [comp |-> c1,
         cmd |-> IF cmd.undone THEN cmd
                 ELSE [cmd EXCEPT !.relativeWidgetValsAfterRedo =
                          [a \in RelativeWidgets |-> c1.attrs[a]]]]

undo(cmd, c, h) ==
    [comp |-> update(setWidgetValues(c, cmd.oldWidgetVals, h),
                     OldAttrs(cmd.relativeWidgetValsAfterRedo), h),
     cmd |-> [cmd EXCEPT !.undone = TRUE]]

\* QUndoStack.push after cmd.redo(): the commands above the index are
\* deleted; the command merges into the one below the index when both have
\* the same id other than -1 (the clean index stays 0, below any command)
push(stack, index, cmd) ==
    LET kept == SubSeq(stack, 1, index)
        appended == Append(kept, cmd)
        limited == IF Len(appended) > UndoLimit THEN Tail(appended) ELSE appended
    IN  IF index > 0 /\ kept[index].id_ # -1 /\ kept[index].id_ = cmd.id_
        THEN [stack |-> [kept EXCEPT ![index] = mergeWith(kept[index], cmd)],
              index |-> index, merged |-> TRUE]
        ELSE [stack |-> limited, index |-> Len(limited), merged |-> FALSE]

\* ---- presets ----
\* a widget set while a preset loads signals update() when its value
\* changes; openingPreset makes that an automatic update
WidgetSignal(c, a, v, h) ==
    IF c.widgets[a] = v THEN c
    ELSE update([c EXCEPT !.widgets[a] = v], NoOldAttrs, h)

\* val = presetDict[key], or getattr(self, key) when the key is missing; the
\* attribute of a relative widget is a number of pixels
presetVal(c, presetDict, key) ==
    IF key \in DOMAIN presetDict THEN presetDict[key]
    ELSE IF key \in RelativeWidgets THEN Float(c.attrs[key], 1)
    ELSE c.attrs[key]

loadPreset(c, presetDict, presetName, h) ==
    LET c0 == [c EXCEPT !.currentPreset = presetName]
        c1 == WidgetSignal(c0, "textColor",
                           ColorText(presetVal(c0, presetDict, "textColor")), h)
        c2 == WidgetSignal(c1, "alignment",
                           presetVal(c1, presetDict, "alignment"), h)
        val == presetVal(c2, presetDict, "yPosition")
        c3 == [c2 EXCEPT !.relativeValues.yPosition = val]
    IN  WidgetSignal(c3, "yPosition", pixelValForAttr(h, val), h)

WithPreset(presets, name, store) ==
    [n \in DOMAIN presets \cup {name} |-> IF n = name THEN store ELSE presets[n]]

\* Core.openPreset on a layer: the layer and Core.savedPresets afterwards
openPreset(c, files, saved, presetName, h) ==
    IF presetName \notin DOMAIN files THEN [comp |-> c, saved |-> saved]
    ELSE [comp |-> loadPreset(c, files[presetName], presetName, h),
          saved |-> WithPreset(saved, presetName, files[presetName])]

OpenPreset(c, presetName, compI) ==
    [type |-> "OpenPreset", layer |-> compI, presetName |-> presetName,
     store |-> PresetStore(c, c.currentPreset), id_ |-> -1]


\* ---- the user's operations ----
PresetNames == {"Saved"}
YInputs == {29, 30, 100}
AlignmentInputs == {0, 1}
UserInputs(attr, picker) ==
    IF attr = "yPosition" THEN YInputs
    ELSE IF attr = "alignment" THEN AlignmentInputs
    ELSE IF picker THEN {ColorText(White), ColorText(Black)}
    ELSE {ColorText(White), ColorText(Black), InvalidText}

\* Component.widget of Title Text: defaults, then centerXY()
NewLayer(h) ==
    LET y == pixelValForAttr(h, Float(521, 1000))
    IN  [attrs |-> [textColor |-> White, alignment |-> 1, yPosition |-> y],
         widgets |-> [textColor |-> ColorText(White), alignment |-> 1,
                      yPosition |-> y],
         relativeValues |-> [yPosition |-> floatValForAttr(h, y)],
         currentPreset |-> Nil]

\* a preset file kept from an earlier session at 1280x720
EarlierPreset ==
    [textColor |-> Black, alignment |-> 0, yPosition |-> Float(100, 720),
     preset |-> "Saved"]

CompInit ==
    /\ resIndex \in 0..(Len(resolutions) - 1)
    /\ comps = [l \in ControlLayers |-> NewLayer(height(resIndex))]
    /\ undoStack = <<>>
    /\ undoIndex = 0
    /\ presetFiles \in {<<>>, [n \in PresetNames |-> EarlierPreset]}
    /\ savedPresets = <<>>
    /\ titleModified = [l \in ControlLayers |-> FALSE]
    /\ history = <<>>

CompStep ==
    /\ opCount < MaxCompOps
    /\ opCount' = opCount + 1
    /\ UNCHANGED <<coreVars, pumpVars, previewVars, wrapVars, restVars>>

Record(op, layer, attr, edited, changed, single, merged) ==
    history' = <<[op |-> op, layer |-> layer, attr |-> attr, edited |-> edited,
                  before |-> comps[layer], changed |-> changed,
                  single |-> single, merged |-> merged,
                  indexBefore |-> undoIndex, index |-> undoIndex',
                  count |-> Len(undoStack')]>> \o history

\* the user changes one control: the widget signals update(), a user update
userUpdate(l, a, v, picker) ==
    /\ CompStep
    /\ picker => a \in ColorWidgets
    /\ comps[l].widgets[a] # v
    /\ LET h == height(resIndex)
           c1 == preUpdate([comps[l] EXCEPT !.widgets[a] = v], NoOldAttrs, h)
           new == NewWidgetVals(c1)
           modifiedWidgets == {x \in TrackedWidgets : new[x] # c1.attrs[x]}
           action == ComponentUpdate(l, c1, c1.attrs,
                        [x \in modifiedWidgets |-> new[x]], ~picker, h)
           r == redo(action, c1, h)
           p == push(undoStack, undoIndex, r.cmd)
       IN  IF modifiedWidgets = {}
           THEN /\ comps' = [comps EXCEPT ![l] = c1]
                /\ UNCHANGED <<undoStack, undoIndex, titleModified>>
                /\ Record("edit", l, a, new[a], FALSE, FALSE, FALSE)
           ELSE /\ comps' = [comps EXCEPT ![l] = r.comp]
                /\ undoStack' = p.stack
                /\ undoIndex' = p.index
                /\ titleModified' = [titleModified EXCEPT ![l] =
                      sendUpdateSignal(r.comp, savedPresets, openingProject, @)]
                /\ Record("edit", l, a, new[a], TRUE,
                          modifiedWidgets = {a}, p.merged)
    /\ UNCHANGED <<resIndex, presetFiles, savedPresets>>

UserEdit ==
    \E l \in ControlLayers, a \in TrackedWidgets, picker \in BOOLEAN :
      \E v \in UserInputs(a, picker) : userUpdate(l, a, v, picker)

StackUndo ==
    /\ CompStep
    /\ undoIndex > 0
    /\ LET cmd == undoStack[undoIndex]
           l == cmd.layer
           h == height(resIndex)
           r == undo(cmd, comps[l], h)
           c1 == loadPreset(comps[l], cmd.store, cmd.store.preset, h)
       IN  /\ IF cmd.type = "ComponentUpdate"
              THEN /\ comps' = [comps EXCEPT ![l] = r.comp]
                   /\ undoStack' = [undoStack EXCEPT ![undoIndex] = r.cmd]
                   /\ titleModified' = [titleModified EXCEPT ![l] =
                         sendUpdateSignal(r.comp, savedPresets, openingProject, @)]
              ELSE /\ comps' = [comps EXCEPT ![l] = c1]
                   /\ UNCHANGED undoStack
                   /\ titleModified' = [titleModified EXCEPT ![l] =
                         updateComponentTitle(c1, cmd.store, savedPresets)]
           /\ undoIndex' = undoIndex - 1
           /\ Record("undo", l, Nil, Nil, FALSE, FALSE, FALSE)
    /\ UNCHANGED <<resIndex, presetFiles, savedPresets>>

StackRedo ==
    /\ CompStep
    /\ undoIndex < Len(undoStack)
    /\ LET cmd == undoStack[undoIndex + 1]
           l == cmd.layer
           h == height(resIndex)
           r == redo(cmd, comps[l], h)
           o == openPreset(comps[l], presetFiles, savedPresets, cmd.presetName, h)
       IN  /\ IF cmd.type = "ComponentUpdate"
              THEN /\ comps' = [comps EXCEPT ![l] = r.comp]
                   /\ undoStack' = [undoStack EXCEPT ![undoIndex + 1] = r.cmd]
                   /\ titleModified' = [titleModified EXCEPT ![l] =
                         sendUpdateSignal(r.comp, savedPresets, openingProject, @)]
                   /\ UNCHANGED savedPresets
              ELSE /\ comps' = [comps EXCEPT ![l] = o.comp]
                   /\ savedPresets' = o.saved
                   /\ UNCHANGED undoStack
                   /\ titleModified' = [titleModified EXCEPT ![l] =
                         forceComponentTitle(o.comp, FALSE)]
           /\ undoIndex' = undoIndex + 1
           /\ Record("redo", l, Nil, Nil, FALSE, FALSE, FALSE)
    /\ UNCHANGED <<resIndex, presetFiles>>


\* MainWindow.updateResolution with another resolution chosen: every layer
\* gets an automatic update
UpdateResolution ==
    \E r \in 0..(Len(resolutions) - 1) :
        /\ CompStep
        /\ r # resIndex
        /\ resIndex' = r
        /\ comps' = [l \in ControlLayers |-> update(comps[l], NoOldAttrs, height(r))]
        /\ titleModified' = [l \in ControlLayers |->
              sendUpdateSignal(comps'[l], savedPresets, openingProject,
                               titleModified[l])]
        /\ UNCHANGED <<undoStack, undoIndex, presetFiles, savedPresets>>
        /\ history' = <<[op |-> "resolution", layer |-> 0,
                          res |-> resIndex, before |-> comps]>> \o history

\* pushing an OpenPreset command: its redo() is PresetManager._openPreset
PushOpenPreset(op, l, c, files, presetName) ==
    LET h == height(resIndex)
        action == OpenPreset(c, presetName, l)
        o == openPreset(c, files, savedPresets, presetName, h)
        p == push(undoStack, undoIndex, action)
    IN  /\ comps' = [comps EXCEPT ![l] = o.comp]
        /\ savedPresets' = o.saved
        /\ titleModified' = [titleModified EXCEPT ![l] =
              forceComponentTitle(o.comp, FALSE)]
        /\ undoStack' = p.stack
        /\ undoIndex' = p.index
        /\ Record(op, l, Nil, Nil, FALSE, FALSE, FALSE)

\* PresetManager.openSavePresetDialog with a good name; an existing file is
\* kept when the user declines to overwrite it
OpenSavePresetDialog ==
    \E l \in ControlLayers, newName \in PresetNames, overwrite \in BOOLEAN :
        /\ CompStep
        /\ overwrite \/ newName \in DOMAIN presetFiles
        /\ LET c == [comps[l] EXCEPT !.currentPreset = newName]
               saveValueStore == PresetStore(c, newName)
               files == IF overwrite THEN WithPreset(presetFiles, newName, saveValueStore)
                        ELSE presetFiles
           IN  /\ presetFiles' = files
               /\ PushOpenPreset("save", l, c, files, newName)
        /\ UNCHANGED resIndex

\* PresetManager.openPreset for a preset picked from the list
PresetManagerOpenPreset ==
    \E l \in ControlLayers, presetName \in DOMAIN presetFiles :
        /\ CompStep
        /\ PushOpenPreset("open", l, comps[l], presetFiles, presetName)
        /\ UNCHANGED <<resIndex, presetFiles>>

CompNext ==
    \/ UserEdit
    \/ StackUndo
    \/ StackRedo
    \/ UpdateResolution
    \/ OpenSavePresetDialog
    \/ PresetManagerOpenPreset

InitComp ==
    /\ CompInit /\ CoreIdle /\ PumpIdle /\ PreviewIdle /\ WrapIdle /\ RestIdle
    /\ opCount = 0

SpecComp == InitComp /\ [][CompNext]_vars

\* an edit that changed one attribute and got an undo-stack entry of its own
EditPushed(e) == e.op = "edit" /\ e.changed /\ e.single /\ ~e.merged
\* two consecutive edits of one attribute of one layer, each changing it
Consecutive(second, first) ==
    /\ second.op = "edit" /\ first.op = "edit"
    /\ second.layer = first.layer /\ second.attr = first.attr
    /\ second.changed /\ second.single
    /\ EditPushed(first)

\* C1: after a single-attribute edit that was pushed to the undo stack, an
\* immediate undo restores every tracked value of the layer to its value
\* before the edit, and a following redo sets the attribute to the edited value
C1_UndoRedoRoundTrip ==
    /\ (/\ Len(history) >= 2
        /\ history[1].op = "undo"
        /\ EditPushed(history[2]))
       => comps[history[2].layer].attrs = history[2].before.attrs
    /\ (/\ Len(history) >= 3
        /\ history[1].op = "redo" /\ history[2].op = "undo"
        /\ EditPushed(history[3]))
       => comps[history[3].layer].attrs[history[3].attr] = history[3].edited

\* C2: two consecutive edits of the same attribute of the same layer leave
\* one undo-stack entry; undoing it restores the value before the first edit
\* and redoing it sets the second edit's value
C2_ConsecutiveEditsMerge ==
    /\ (/\ Len(history) >= 2
        /\ Consecutive(history[1], history[2]))
       => /\ history[1].index = history[2].indexBefore + 1
          /\ history[1].count = history[1].index
    /\ (/\ Len(history) >= 3
        /\ history[1].op = "undo"
        /\ Consecutive(history[2], history[3]))
       => comps[history[3].layer].attrs[history[3].attr]
            = history[3].before.attrs[history[3].attr]
    /\ (/\ Len(history) >= 4
        /\ history[1].op = "redo" /\ history[2].op = "undo"
        /\ Consecutive(history[3], history[4]))
       => comps[history[3].layer].attrs[history[3].attr] = history[3].edited

\* C10: after a preset is opened on a layer, an edit that changes one
\* tracked value makes the title report modified, and a second edit that
\* sets the value back to the preset's makes it report not modified
C10_ModifiedAfterOpen ==
    /\ (/\ Len(history) >= 2
        /\ history[2].op = "open"
        /\ EditPushed(history[1]) /\ history[1].layer = history[2].layer)
       => titleModified[history[1].layer]
    /\ (/\ Len(history) >= 3
        /\ history[3].op = "open"
        /\ history[2].layer = history[3].layer
        /\ Consecutive(history[1], history[2])
        /\ comps[history[2].layer].attrs[history[2].attr]
             = history[2].before.attrs[history[2].attr])
       => ~titleModified[history[2].layer]

\* ---------------------------------------------------------------------
\* Relative controls under resolution changes (component.py 719-794,
\* mainwindow.py 618-626): the y spin box of a Title Text layer is edited
\* with pixel values around the ones whose fraction rounds up, and the
\* output resolution is switched.
\* ---------------------------------------------------------------------
PixelInputs == {29, 30, 124, 125}

RelativeEdit ==
    \E l \in ControlLayers, a \in RelativeWidgets :
      \E v \in PixelInputs : userUpdate(l, a, v, FALSE)

RelativeNext == RelativeEdit \/ UpdateResolution

SpecRelative == InitComp /\ [][RelativeNext]_vars

\* the last two steps switched the resolution away and back
ThereAndBack ==
    /\ Len(history) >= 2
    /\ history[1].op = "resolution"
    /\ history[2].op = "resolution"
    /\ resIndex = history[2].res

\* C14: after the output resolution is changed to another supported one and
\* then back, every relative control shows the pixel value it showed before
\* the first change
C14_ResolutionThereAndBack ==
    ThereAndBack =>
        \A l \in ControlLayers, a \in RelativeWidgets :
            comps[l].widgets[a] = history[2].before[l].widgets[a]


\* ---------------------------------------------------------------------
\* Undoable layer-list actions of the main window (gui/actions.py,
\* gui/mainwindow.py).  The layers are Title Text instances; comps[id] holds
\* the tracked controls of instance id, attached or not, and pages the
\* instance whose page is shown for each row.
\* ---------------------------------------------------------------------
MaxActOps == 3
MaxSelected == 2
InitialLayers == 2
TitleTextModule == moduleIndexFor("Title Text").value

\* Python's s[i] and s.pop(i): a negative index counts from the end
PyIndex(n, i) == IF i < 0 THEN n + i ELSE i
ValidIndex(n, i) == 0 <= PyIndex(n, i) /\ PyIndex(n, i) < n

\* Core.insertComponent with the main window as loader: the tracked
\* controls of a new instance, MainWindow.insertComponent (the page), and
\* Core.updateComponent of the inserted layer
LoaderInsertComponent(st, compPos, component, h) ==
    LET r == insertComponent(st.list, compPos, component, st.ids, 0)
        id == r.list[r.ret + 1].id
        cs == IF r.ids > st.ids THEN Append(st.comps, NewLayer(h)) ELSE st.comps
    IN  IF r.raised \/ r.ret = -1
        THEN [list |-> st.list, ids |-> st.ids, comps |-> st.comps,
              pages |-> st.pages, ret |-> -1, raised |-> r.raised]
        ELSE [list |-> r.list, ids |-> r.ids,
              comps |-> [cs EXCEPT ![id] = update(@, NoOldAttrs, h)],
              pages |-> ListInsert(st.pages, r.ret, id),
              ret |-> r.ret, raised |-> FALSE]

\* MainWindow._removeComponent(index): pages[index] is read first, then
\* Core.removeComponent pops the layer, then the page is popped
MainWindowRemoveComponent(st, index) ==
    IF ~ValidIndex(Len(st.pages), index) \/ ~ValidIndex(Len(st.list), index)
    THEN [st EXCEPT !.raised = TRUE]
    ELSE [st EXCEPT
            !.list = removeComponent(st.list, PyIndex(Len(st.list), index)),
            !.pages = ListPop(st.pages, PyIndex(Len(st.pages), index))]

\* AddComponent.__init__
AddComponent(compI, moduleI) ==
    [type |-> "AddComponent", compI |-> compI, moduleI |-> moduleI,
     comp |-> PyNone, id_ |-> -1]

\* the component argument of AddComponent.redo, creating a new instance
\* every time
AddComponentArgumentNew(cmd) == PyInt(cmd.moduleI)

\* the component argument of AddComponent.redo: the module index the first
\* time, later the instance that undo() kept
AddComponentArgument(cmd) ==
    IF cmd.comp.type = "NoneType" THEN PyInt(cmd.moduleI) ELSE cmd.comp

AddComponentRedo(cmd, st, h) ==
    LET r == LoaderInsertComponent(st, cmd.compI, AddComponentArgument(cmd), h)
    IN  [st |-> r, cmd |-> [cmd EXCEPT !.compI = r.ret]]

AddComponentUndo(cmd, st) ==
    IF ~ValidIndex(Len(st.list), cmd.compI)
    THEN [st |-> [st EXCEPT !.raised = TRUE], cmd |-> cmd]
    ELSE [st |-> MainWindowRemoveComponent(st, cmd.compI),
          cmd |-> [cmd EXCEPT !.comp =
                      st.list[PyIndex(Len(st.list), cmd.compI) + 1]]]

\* RemoveComponent.__init__: the rows in the order they were selected
RemoveComponent(list, selectedRows) ==
    [type |-> "RemoveComponent", selectedRows |-> selectedRows,
     components |-> [k \in 1..Len(selectedRows) |-> list[selectedRows[k] + 1]],
     id_ |-> -1]

\* sorted(rows, reverse=True)
RECURSIVE SortedReverse(_)
SortedReverse(rows) ==
    IF rows = {} THEN <<>>
    ELSE LET top == CHOOSE x \in rows : \A y \in rows : y <= x
         IN  <<top>> \o SortedReverse(rows \ {top})

RECURSIVE RemoveRows(_, _, _)
RemoveRows(st, rows, k) ==
    IF k > Len(rows) THEN st
    ELSE RemoveRows(MainWindowRemoveComponent(st, rows[k]), rows, k + 1)

RemoveComponentRedo(cmd, st) ==
    RemoveRows(st, SortedReverse({cmd.selectedRows[k] :
                                     k \in 1..Len(cmd.selectedRows)}), 1)

\* for index, comp in zip(self.selectedRows, self.components)
RECURSIVE InsertRows(_, _, _, _)
InsertRows(st, cmd, k, h) ==
    IF k > Len(cmd.selectedRows) THEN st
    ELSE InsertRows(LoaderInsertComponent(st, cmd.selectedRows[k],
                                          cmd.components[k], h), cmd, k + 1, h)

RemoveComponentUndo(cmd, st, h) == InsertRows(st, cmd, 1, h)

\* MoveComponent: Core.moveComponent; update_component_display rebuilds the
\* list widget and leaves MainWindow.pages as it is
MoveComponent(startI, endI) ==
    [type |-> "MoveComponent", startI |-> startI, endI |-> endI, id_ |-> -1]
MoveComponentRedo(cmd, st) ==
    [st EXCEPT !.list = moveComponent(st.list, cmd.startI, cmd.endI)]
MoveComponentUndo(cmd, st) ==
    [st EXCEPT !.list = moveComponent(st.list, cmd.endI, cmd.startI)]


\* the ordered selections of up to MaxSelected different rows of n rows
Selections(n) ==
    {sel \in SeqsUpTo(0..(n - 1), MaxSelected) :
        /\ sel # <<>>
        /\ \A j, k \in 1..Len(sel) : j # k => sel[j] # sel[k]}

ListState ==
    [list |-> selectedComponents, ids |-> nextId, comps |-> comps,
     pages |-> pages, ret |-> 0, raised |-> FALSE]

SetListState(st) ==
    /\ selectedComponents' = st.list
    /\ nextId' = st.ids
    /\ comps' = st.comps
    /\ pages' = st.pages

ActInit ==
    /\ selectedComponents \in {Inserted(0), Inserted(InitialLayers)}
    /\ nextId = Len(selectedComponents)
    /\ openingProject = FALSE
    /\ lastCall = [op |-> "init", ret |-> Nil, recs |-> <<>>]
    /\ resIndex = 1
    /\ comps = [i \in 1..nextId |-> NewLayer(height(resIndex))]
    /\ pages = [i \in 1..nextId |-> selectedComponents[i].id]
    /\ undoStack = <<>>
    /\ undoIndex = 0
    /\ presetFiles = <<>>
    /\ savedPresets = <<>>
    /\ titleModified = <<>>
    /\ history = <<>>

ActStep ==
    /\ opCount < MaxActOps
    /\ opCount' = opCount + 1
    /\ UNCHANGED <<openingProject, lastCall, pumpVars, previewVars, wrapVars,
                   presetFiles, savedPresets, titleModified, laterVars>>

\* the last two operations, newest first: the operation, the command it ran
\* and the layers before it
Remember(op, cmd) ==
    history' = <<[op |-> op, kind |-> cmd.type, cmd |-> cmd,
                  list |-> selectedComponents, comps |-> comps]>>
               \o SubSeq(history, 1, IF Len(history) > 0 THEN 1 ELSE 0)

\* MainWindow.addComponent from the Add menu
ActAddComponent ==
    \E compPos \in -1..Len(selectedComponents) :
        LET r == AddComponentRedo(AddComponent(compPos, TitleTextModule),
                                  ListState, height(resIndex))
            p == push(undoStack, undoIndex, r.cmd)
        IN  /\ ActStep
            /\ SetListState(r.st)
            /\ undoStack' = p.stack
            /\ undoIndex' = p.index
            /\ Remember("add", r.cmd)
            /\ UNCHANGED resIndex

\* MainWindow.removeComponent with some rows selected
ActRemoveComponent ==
    \E sel \in Selections(Len(selectedComponents)) :
        LET cmd == RemoveComponent(selectedComponents, sel)
            p == push(undoStack, undoIndex, cmd)
        IN  /\ ActStep
            /\ SetListState(RemoveComponentRedo(cmd, ListState))
            /\ undoStack' = p.stack
            /\ undoIndex' = p.index
            /\ Remember("remove", cmd)
            /\ UNCHANGED resIndex

\* MainWindow.moveComponent(change) with a current row
ActMoveComponent ==
    \E currentRow \in 0..(Len(selectedComponents) - 1),
       change \in {"up", "down", "top", "bottom"} :
        LET newRow == IF change = "top" THEN 0
                      ELSE IF change = "bottom" THEN Len(selectedComponents) - 1
                      ELSE IF change = "up" THEN currentRow - 1
                      ELSE currentRow + 1
            cmd == MoveComponent(currentRow, newRow)
            p == push(undoStack, undoIndex, cmd)
        IN  /\ ActStep
            /\ 0 <= newRow /\ newRow < Len(selectedComponents)
            /\ SetListState(MoveComponentRedo(cmd, ListState))
            /\ undoStack' = p.stack
            /\ undoIndex' = p.index
            /\ Remember("move", cmd)
            /\ UNCHANGED resIndex

ActUndo ==
    /\ ActStep
    /\ undoIndex > 0
    /\ LET cmd == undoStack[undoIndex]
           h == height(resIndex)
           a == AddComponentUndo(cmd, ListState)
       IN  /\ IF cmd.type = "AddComponent"
              THEN /\ SetListState(a.st)
                   /\ undoStack' = [undoStack EXCEPT ![undoIndex] = a.cmd]
              ELSE IF cmd.type = "RemoveComponent"
              THEN /\ SetListState(RemoveComponentUndo(cmd, ListState, h))
                   /\ UNCHANGED undoStack
              ELSE /\ SetListState(MoveComponentUndo(cmd, ListState))
                   /\ UNCHANGED undoStack
           /\ Remember("undo", cmd)
    /\ undoIndex' = undoIndex - 1
    /\ UNCHANGED resIndex

ActRedo ==
    /\ ActStep
    /\ undoIndex < Len(undoStack)
    /\ LET cmd == undoStack[undoIndex + 1]
           h == height(resIndex)
           a == AddComponentRedo(cmd, ListState, h)
       IN  /\ IF cmd.type = "AddComponent"
              THEN /\ SetListState(a.st)
                   /\ undoStack' = [undoStack EXCEPT ![undoIndex + 1] = a.cmd]
              ELSE IF cmd.type = "RemoveComponent"
              THEN /\ SetListState(RemoveComponentRedo(cmd, ListState))
                   /\ UNCHANGED undoStack
              ELSE /\ SetListState(MoveComponentRedo(cmd, ListState))
                   /\ UNCHANGED undoStack
           /\ Remember("redo", cmd)
    /\ undoIndex' = undoIndex + 1
    /\ UNCHANGED resIndex

\* MainWindow.updateResolution: the listed layers get an automatic update
ActUpdateResolution ==
    \E r \in 0..(Len(resolutions) - 1) :
        /\ ActStep
        /\ r # resIndex
        /\ resIndex' = r
        /\ comps' = [i \in 1..Len(comps) |->
              IF \E k \in 1..Len(selectedComponents) : selectedComponents[k].id = i
              THEN update(comps[i], NoOldAttrs, height(r)) ELSE comps[i]]
        /\ history' = <<>>
        /\ UNCHANGED <<selectedComponents, nextId, pages, undoStack, undoIndex>>

ActNext ==
    \/ ActAddComponent
    \/ ActRemoveComponent
    \/ ActMoveComponent
    \/ ActUndo
    \/ ActRedo
    \/ ActUpdateResolution

InitActions ==
    /\ ActInit /\ PumpIdle /\ PreviewIdle /\ WrapIdle /\ LaterIdle
    /\ opCount = 0

SpecActions == InitActions /\ [][ActNext]_vars

\* C11: undo followed at once by redo of an AddComponent action that
\* inserted a layer puts the same instance back at the same position: the
\* layer list and the layer's tracked controls are as they were before the undo
C11_AddUndoRedoSameInstance ==
    (/\ Len(history) = 2
     /\ history[1].op = "redo" /\ history[1].kind = "AddComponent"
     /\ history[2].op = "undo" /\ history[2].cmd.compI # -1)
    => /\ selectedComponents = history[2].list
       /\ LET id == history[2].list[history[2].cmd.compI + 1].id
          IN  comps[id] = history[2].comps[id]

C11_Witness ==
    /\ Len(history) = 2
    /\ history[1].op = "redo" /\ history[1].kind = "AddComponent"
    /\ history[2].op = "undo" /\ history[2].cmd.compI # -1
    /\ Len(selectedComponents) > InitialLayers
    /\ selectedComponents = history[2].list

\* C12: a RemoveComponent action's redo followed at once by its undo leaves
\* the layer list with the same instances in the same order as before the
\* removal, whatever the order in which the rows were selected
C12_RemoveRedoUndoRestores ==
    (/\ Len(history) = 2
     /\ history[1].op = "undo" /\ history[1].kind = "RemoveComponent"
     /\ history[2].op \in {"remove", "redo"})
    => selectedComponents = history[2].list


\* ---------------------------------------------------------------------
\* Conway's Game of Life (components/life.py): the grids of the ticks
\* ---------------------------------------------------------------------
MaxTick == 2
MaxTickRate == 2
ExtraCells == 1
LowestWidth == 854
LowestHeight == 480
scale == 32
bleedSize == 40
KeptTicks == 60

\* Component.updateGridSize: the grid of the lowest resolution
gridWidth == LowestWidth \div scale
gridHeight == LowestHeight \div scale

\* Component.nearbyCoords without the four diagonal neighbours
nearbyCoordsStraight(cell) ==
    {<<cell[1], cell[2] + 1>>, <<cell[1], cell[2] - 1>>,
     <<cell[1] + 1, cell[2]>>, <<cell[1] - 1, cell[2]>>}

\* Component.nearbyCoords
nearbyCoords(cell) ==
    {<<cell[1] + 1, cell[2] + 1>>, <<cell[1] + 1, cell[2] - 1>>,
     <<cell[1] - 1, cell[2] + 1>>, <<cell[1] - 1, cell[2] - 1>>,
     <<cell[1], cell[2] + 1>>, <<cell[1], cell[2] - 1>>,
     <<cell[1] + 1, cell[2]>>, <<cell[1] - 1, cell[2]>>}

neighbours(lastGrid, cell) == nearbyCoords(cell) \cap lastGrid

\* the test that skips a cell of the previous grid: Python's chained
\* comparison a > x > b means a > x and x > b
OutsideBleed(cell) ==
    \/ (0 - bleedSize > cell[1] /\ cell[1] > gridWidth + bleedSize)
    \/ (0 - bleedSize > cell[2] /\ cell[2] > gridHeight + bleedSize)

\* the body of Component.gridForTick after lastGrid is known
NewGrid(lastGrid) ==
    LET copied == {cell \in lastGrid :
                     /\ ~OutsideBleed(cell)
                     /\ Cardinality(neighbours(lastGrid, cell)) \in {2, 3}}
        potentialNewCells == UNION {nearbyCoords(origin) : origin \in lastGrid}
    IN  copied \cup {cell \in potentialNewCells \ copied :
                        Cardinality(neighbours(lastGrid, cell)) = 3}

\* Component.gridForTick(tick) for tick over 0: the grids computed on the
\* way are stored in tickGrids, the grid of tick is returned
RECURSIVE gridForTick(_, _)
gridForTick(grids, tick) ==
    LET known == IF tick - 1 \in DOMAIN grids THEN grids
                 ELSE LET r == gridForTick(grids, tick - 1)
                      IN  [t \in DOMAIN r.grids \cup {tick - 1} |->
                              IF t = tick - 1 THEN r.grid ELSE r.grids[t]]
    IN  [grids |-> known, grid |-> NewGrid(known[tick - 1])]

\* grids the user can draw: the cells of a 3x3 region and of the column
\* next to it, and the grid a new component starts with
Region == ((1..3) \X (1..3)) \cup {<<4, y>> : y \in 1..ExtraCells}
QueenBeeShuttle ==
    {<<3, 7>>, <<3, 8>>, <<4, 7>>, <<4, 8>>, <<8, 7>>, <<9, 6>>, <<9, 8>>,
     <<10, 5>>, <<10, 9>>, <<11, 6>>, <<11, 7>>, <<11, 8>>, <<12, 4>>,
     <<12, 5>>, <<12, 9>>, <<12, 10>>, <<23, 6>>, <<23, 7>>, <<24, 6>>,
     <<24, 7>>}

\* grids a preset's GRID or repeated shifts put beyond the bleed area: a
\* vertical line left of it and a block right of it
FarGrids ==
    {{<<0 - bleedSize - 2, y>> : y \in 1..3},
     (gridWidth + bleedSize + 2 .. gridWidth + bleedSize + 3) \X (1..2)}

\* the state after preFrameRender
LifeInit ==
    /\ startingGrid \in SUBSET Region \cup {QueenBeeShuttle} \cup FarGrids
    /\ tickRate \in 1..MaxTickRate
    /\ tickGrids = [t \in {0} |-> startingGrid]

\* Component.frameRender(frameNo), up to the drawing of the grid
LifeFrameRender ==
    \E frame \in 0..(MaxTick * MaxTickRate) :
        LET tick == frame \div tickRate
            r == gridForTick(tickGrids, tick)
            computed == IF tick \in DOMAIN tickGrids THEN tickGrids
                        ELSE [t \in DOMAIN r.grids \cup {tick} |->
                                 IF t = tick THEN r.grid ELSE r.grids[t]]
        IN  /\ tick <= MaxTick
            /\ tickGrids' = [t \in DOMAIN computed \ {tick - KeptTicks} |-> computed[t]]
            /\ UNCHANGED <<startingGrid, tickRate>>
            /\ UNCHANGED <<coreVars, pumpVars, previewVars, wrapVars, compVars,
                           opCount, actVars, moreVars>>

LifeNext == LifeFrameRender

InitLife ==
    /\ LifeInit /\ CoreIdle /\ PumpIdle /\ PreviewIdle /\ WrapIdle /\ CompIdle
    /\ ActIdle /\ MoreIdle
    /\ opCount = 0

SpecLife == InitLife /\ [][LifeNext]_vars


MaxHalves == 102
Axes == {480, 720, 854}
Half == Float(1, 2)
Fractions ==
    {Float(n, d) : n \in 0..MaxHalves, d \in Axes \cup {2}}
        \cup {Float(n, d) : n \in 1..(MaxHalves \div 2), d \in {1}}

ConvInit ==
    /\ attrAxis \in Axes
    /\ attrVal \in Fractions
    /\ attrPixels = <<>>
    /\ attrFloat = <<>>

ConvStep ==
    UNCHANGED <<coreVars, pumpVars, previewVars, wrapVars, compVars, opCount,
                actVars, lifeVars, audioVars, gateVars, errVars, attrAxis,
                attrVal>>

PixelValForAttr ==
    /\ ConvStep
    /\ attrPixels = <<>>
    /\ attrPixels' = <<pixelValForAttr(attrAxis, attrVal)>>
    /\ UNCHANGED attrFloat

FloatValForAttr ==
    /\ ConvStep
    /\ attrPixels # <<>>
    /\ attrFloat = <<>>
    /\ attrFloat' = <<floatValForAttr(attrAxis, attrPixels[1])>>
    /\ UNCHANGED attrPixels

ConvNext == PixelValForAttr \/ FloatValForAttr

InitConv ==
    /\ ConvInit /\ CoreIdle /\ PumpIdle /\ PreviewIdle /\ WrapIdle /\ CompIdle
    /\ ActIdle /\ LifeIdle /\ AudioIdle /\ GateIdle /\ ErrIdle
    /\ opCount = 0

SpecConv == InitConv /\ [][ConvNext]_vars

\* f <= 0.5 and f > 0.5 for the double of a fraction (0.5 is a double)
AtMostHalf(f) == 2 * f.n <= f.d

\* C15: for a fraction f with 0 <= f <= 0.5 and an axis length a,
\* floatValForAttr(pixelValForAttr(f, axis=a), axis=a) differs from f by at
\* most 1/a
C15_RoundTripWithinOnePixel ==
    (attrFloat # <<>> /\ AtMostHalf(attrVal))
        => /\ ~ExceedsByMoreThan(attrFloat[1], attrVal, attrAxis)
           /\ ~ExceedsByMoreThan(attrVal, attrFloat[1], attrAxis)

\* C16 as stated: for a fraction f greater than 0.5, pixelValForAttr(f,
\* axis=a) returns the pixel value of pixelValForAttr(0.5, axis=a)
C16_ClampsAtHalf ==
    (attrPixels # <<>> /\ ~AtMostHalf(attrVal))
        => attrPixels[1] = pixelValForAttr(attrAxis, Half)

\* val > 50.0 for the double of a fraction
AboveFifty(f) == f.n > 50 * f.d

\* C16 as the code has it: for a fraction f greater than 50.0,
\* pixelValForAttr(f, axis=a) returns the pixel value of
\* pixelValForAttr(50.0, axis=a)
C16_ClampsAtFifty ==
    (attrPixels # <<>> /\ AboveFifty(attrVal))
        => attrPixels[1] = pixelValForAttr(attrAxis, Float(50, 1))

C16_Witness ==
    /\ attrPixels # <<>>
    /\ attrVal = Float(MaxHalves, 2)
    /\ AboveFifty(attrVal)
    /\ attrPixels[1] = 50 * attrAxis


\* ---------------------------------------------------------------------
\* readAudioFile (toolkit/ffmpeg.py 441-501): the decoder subprocess writes
\* the samples to a pipe, readAudioFile reads them in chunks of four
\* seconds until the pipe is at its end or Core.canceled is set.
\* ---------------------------------------------------------------------
MaxChunks == 3
\* the chunks the operating system's pipe holds for a decoder that exited
PipeChunks == 1
ChunkSeconds == 4
Durations == {4, 8, 16}
NoDuration == 0

AudioStep ==
    UNCHANGED <<coreVars, pumpVars, previewVars, wrapVars, compVars, opCount,
                actVars, lifeVars, convVars, gateVars, errVars>>

AudioReturn(result, at) ==
    /\ audioPc' = "returned"
    /\ audioReturn' = <<[result |-> result, at |-> at]>>

\* readAudioFile up to its loop: getAudioDuration, then openPipe
ReadAudioFile ==
    \E d \in Durations \cup {NoDuration}, chunks \in 0..MaxChunks :
        /\ AudioStep
        /\ audioPc = "idle"
        /\ duration' = d
        /\ IF d = NoDuration
           THEN /\ AudioReturn(Nil, "duration")
                /\ UNCHANGED <<pipe, rawAudio>>
           ELSE /\ pipe' = "running"
                /\ rawAudio' = chunks
                /\ audioPc' = "loop"
                /\ UNCHANGED audioReturn
        /\ UNCHANGED <<coreCanceled, completeAudioArray, progress, lastPercent,
                       progressBar>>

\* one pass of the loop; the read returns b'' only when the decoder has
\* closed its end of the pipe
ReadAudio ==
    /\ AudioStep
    /\ audioPc = "loop"
    /\ IF coreCanceled
       THEN /\ AudioReturn(Nil, "canceled")
            /\ UNCHANGED <<pipe, rawAudio, completeAudioArray, progress,
                           lastPercent, progressBar>>
       ELSE IF rawAudio = 0
       THEN /\ pipe = "exited"
            /\ progress' = progress + ChunkSeconds
            /\ pipe' = "exited"
            /\ AudioReturn([array |-> completeAudioArray, duration |-> duration],
                           "end")
            /\ UNCHANGED <<rawAudio, completeAudioArray, lastPercent, progressBar>>
       ELSE LET p == (100 * (progress + ChunkSeconds)) \div duration
                percent == IF p >= 100 THEN 100 ELSE p
            IN  /\ progress' = progress + ChunkSeconds
                /\ rawAudio' = rawAudio - 1
                /\ completeAudioArray' = completeAudioArray + 1
                /\ progressBar' = IF lastPercent # percent
                                  THEN Append(progressBar, percent)
                                  ELSE progressBar
                /\ lastPercent' = percent
                /\ UNCHANGED <<pipe, audioPc, audioReturn>>
    /\ UNCHANGED <<coreCanceled, duration>>

\* the decoder has written all its output and exits
DecoderExit ==
    /\ AudioStep
    /\ pipe = "running"
    /\ rawAudio <= PipeChunks
    /\ pipe' = "exited"
    /\ UNCHANGED <<coreCanceled, audioPc, rawAudio, completeAudioArray, progress,
                   duration, lastPercent, progressBar, audioReturn>>

\* Core.cancel()
CoreCancel ==
    /\ AudioStep
    /\ ~coreCanceled
    /\ coreCanceled' = TRUE
    /\ UNCHANGED <<audioPc, pipe, rawAudio, completeAudioArray, progress,
                   duration, lastPercent, progressBar, audioReturn>>

AudioNext == ReadAudioFile \/ ReadAudio \/ DecoderExit \/ CoreCancel

InitAudio ==
    /\ AudioIdle /\ CoreIdle /\ PumpIdle /\ PreviewIdle /\ WrapIdle /\ CompIdle
    /\ ActIdle /\ LifeIdle /\ ConvIdle /\ GateIdle /\ ErrIdle
    /\ opCount = 0

SpecAudio == InitAudio /\ [][AudioNext]_vars

\* C17: when readAudioFile returns because it saw Core.canceled, it returns
\* None and the decoder subprocess it started is no longer running
C17_CanceledDecoderTerminated ==
    (audioReturn # <<>> /\ audioReturn[1].at = "canceled")
        => /\ audioReturn[1].result = Nil
           /\ pipe = "exited"


\* ---------------------------------------------------------------------
\* What a project load switches off: Component._sendUpdateSignal
\* (component.py 572-577), Worker.createPreviewImage (preview_thread.py
\* 38-45) and MainWindow.autosave (mainwindow.py 448-472) test
\* Core.openingProject.  The load itself runs in the main thread and calls
\* the layers' update methods, drawPreview and, when it fails,
\* createNewProject; the worker receives the newTask signals in its own
\* thread.
\* ---------------------------------------------------------------------
MaxGateOps == 6

\* @disableWhenOpeningProject: the call returns at once during a load
disableWhenOpeningProjectOff(opening, returned, called) == called

disableWhenOpeningProject(opening, returned, called) ==
    IF opening THEN returned ELSE called

Gate == [pending |-> pendingTasks, notified |-> notified,
         writes |-> autosaveWrites, onDisk |-> autosaveOnDisk, gated |-> gated]
SetGate(g) ==
    /\ pendingTasks' = g.pending
    /\ notified' = g.notified
    /\ autosaveWrites' = g.writes
    /\ autosaveOnDisk' = g.onDisk
    /\ gated' = g.gated

\* MainWindow.autosave(force); elapsed: the cooldown has passed
autosave(g, opening, project, force, elapsed) ==
    disableWhenOpeningProject(opening,
        [g EXCEPT !.gated = @ \cup {"autosave"}],
        IF ~project THEN [g EXCEPT !.onDisk = FALSE]
        ELSE IF force \/ elapsed
        THEN [g EXCEPT !.writes = @ + 1, !.onDisk = TRUE]
        ELSE g)

\* MainWindow.drawPreview(force, **kwargs); kw is the autosave keyword:
\* "absent", "True" or "False"
drawPreview(g, opening, project, force, kw, elapsed) ==
    LET g1 == [g EXCEPT !.pending = @ + 1]
    IN  IF force \/ kw # "absent"
        THEN IF force \/ kw = "True"
             THEN autosave(g1, opening, project, TRUE, elapsed)
             ELSE g1
        ELSE autosave(g1, opening, project, FALSE, elapsed)

GateStep ==
    /\ opCount < MaxGateOps
    /\ opCount' = opCount + 1
    /\ UNCHANGED <<selectedComponents, nextId, lastCall, pumpVars, rendered,
                   dropped, lastProcess, wrapVars, compVars, actVars, lifeVars,
                   convVars, audioVars, errVars>>

\* MainWindow.openProject up to the point where Core.openProject has set
\* openingProject
BeginOpenProject ==
    /\ GateStep
    /\ ~openingProject
    /\ openingProject' = TRUE
    /\ currentProject' = TRUE
    /\ gated' = {}
    /\ UNCHANGED <<queue, nextRequest, pendingTasks, notified, autosaveWrites,
                   autosaveOnDisk>>

\* Core.openProject resets openingProject and returns
EndOpenProject ==
    /\ GateStep
    /\ openingProject
    /\ openingProject' = FALSE
    /\ UNCHANGED <<queue, nextRequest, gateVars>>

\* Component._sendUpdateSignal of some layer
SendUpdateSignal ==
    \E elapsed \in BOOLEAN :
        /\ GateStep
        /\ IF ~openingProject
           THEN SetGate([drawPreview(Gate, openingProject, currentProject,
                                     FALSE, "absent", elapsed)
                            EXCEPT !.notified = @ + 1])
           ELSE SetGate([Gate EXCEPT !.gated = @ \cup {"signal"}])
        /\ UNCHANGED <<openingProject, currentProject, queue, nextRequest>>

\* MainWindow.createNewProject(prompt=False), also run by a failed load
CreateNewProject ==
    \E elapsed \in BOOLEAN :
        /\ GateStep
        /\ currentProject' = FALSE
        /\ SetGate(drawPreview(Gate, openingProject, FALSE, TRUE, "absent",
                               elapsed))
        /\ UNCHANGED <<openingProject, queue, nextRequest>>

\* Worker.createPreviewImage, run in the worker's thread for one newTask
WorkerCreatePreviewImage ==
    /\ GateStep
    /\ pendingTasks > 0
    /\ pendingTasks' = pendingTasks - 1
    /\ nextRequest' = nextRequest + 1
    /\ queue' = disableWhenOpeningProject(openingProject, queue,
                                          Append(queue, nextRequest'))
    /\ gated' = disableWhenOpeningProject(openingProject,
                                          gated \cup {"preview"}, gated)
    /\ UNCHANGED <<openingProject, currentProject, notified, autosaveWrites,
                   autosaveOnDisk>>

GateNext ==
    \/ BeginOpenProject
    \/ EndOpenProject
    \/ SendUpdateSignal
    \/ CreateNewProject
    \/ WorkerCreatePreviewImage

InitGate ==
    /\ GateIdle /\ CoreIdle /\ PumpIdle /\ PreviewIdle /\ WrapIdle /\ CompIdle
    /\ ActIdle /\ LifeIdle /\ ConvIdle /\ AudioIdle /\ ErrIdle
    /\ opCount = 0

SpecGate == InitGate /\ [][GateNext]_vars

OpenProjectReturned ==
    lastCall.op \in {"MainWindow.openProject", "Command._handle_project_file"}

\* C19: whenever Core.openProject has returned, on whichever path,
\* Core.openingProject is false
C19_OpeningProjectReset == OpenProjectReturned => ~openingProject


\* ---------------------------------------------------------------------
\* The frame pump under fair scheduling (ffmpeg.py 84-92, 117-146): the
\* pump thread and a caller inside frame(num) each take their next step
\* whenever they can.  Nothing obliges a caller to enter frame() or the
\* user to cancel.
\* ---------------------------------------------------------------------
SpecPumpFair ==
    /\ InitPump
    /\ [][PumpNext]_vars
    /\ WF_vars(FillBuffer)
    /\ WF_vars(FrameLoop)

\* a caller is inside frame(num) and the pump thread has left its loop
BlockedAfterPumpStopped == request # <<>> /\ ~pumpAlive

\* C20: a caller that is inside frame(num) when the pump thread has stopped
\* producing is eventually released
C20_ConsumerReleased == BlockedAfterPumpStopped ~> (request = <<>>)


\* ---------------------------------------------------------------------
\* Merging of control edits on the undo stack (component.py 850-900):
\* two Title Text layers, edited by the user one control at a time.
\* ---------------------------------------------------------------------
MaxMergeOps == 2

MergeInit ==
    /\ resIndex = 1
    /\ comps = [l \in Layers |-> NewLayer(height(resIndex))]
    /\ undoStack = <<>>
    /\ undoIndex = 0
    /\ presetFiles = <<>>
    /\ savedPresets = <<>>
    /\ titleModified = [l \in Layers |-> FALSE]
    /\ history = <<>>

MergeEdit ==
    \E l \in Layers, a \in TrackedWidgets, picker \in BOOLEAN :
      \E v \in UserInputs(a, picker) :
        /\ opCount < MaxMergeOps
        /\ userUpdate(l, a, v, picker)

MergeNext == MergeEdit

InitMerge ==
    /\ MergeInit /\ CoreIdle /\ PumpIdle /\ PreviewIdle /\ WrapIdle /\ RestIdle
    /\ opCount = 0

SpecMerge == InitMerge /\ [][MergeNext]_vars

\* an edit that changed the layer and so pushed a ComponentUpdate
Pushed(e) == e.op = "edit" /\ e.changed

\* C21: an edit is merged into the previous undo-stack entry only if both are
\* single-attribute edits of the same attribute on the same layer
C21_MergeOnlySameLayerAttr ==
    (/\ Len(history) >= 2
     /\ Pushed(history[1]) /\ Pushed(history[2])
     /\ history[1].merged)
       => /\ history[1].single /\ history[2].single
          /\ history[1].layer = history[2].layer
          /\ history[1].attr = history[2].attr


\* ---------------------------------------------------------------------
\* MainWindow.pages against the layer list, on the list-actions model
\* ---------------------------------------------------------------------
\* C22: after every add, remove or move of a layer and every undo or redo of
\* one, MainWindow.pages is as long as the layer list and pages[i] is the
\* page of the layer at position i
C22_PagesFollowLayers ==
    /\ Len(pages) = Len(selectedComponents)
    /\ \A i \in 1..Len(selectedComponents) :
          i <= Len(pages) => pages[i] = selectedComponents[i].id


\* ---------------------------------------------------------------------
\* Repeated ComponentErrors, on the wrapper model
\* ---------------------------------------------------------------------
\* the call recorded in w made its wrapper construct a ComponentError
Faulted(w) == w.raised = "ValueError"

\* C23: a fault is suppressed as a repeat only when the same layer faulted in
\* the same phase less than a second earlier; here the only earlier fault is
\* another layer's, so the second layer's fault locks its error and emits an
\* error notification
C23_OtherLayerAlwaysReported ==
    [][(/\ opCount = 1 /\ opCount' = 2
        /\ Faulted(lastWrapped) /\ Faulted(lastWrapped')
        /\ lastWrapped'.layer # lastWrapped.layer)
       => (/\ lastWrapped'.layer \in lockedError'
           /\ errorsEmitted' = errorsEmitted + 1)]_vars


\* ---------------------------------------------------------------------
\* The bleed area of the Game of Life
\* ---------------------------------------------------------------------
\* the cell lies more than bleedSize cells outside the grid on some side
BeyondBleed(cell) ==
    \/ cell[1] < 0 - bleedSize \/ cell[1] > gridWidth + bleedSize
    \/ cell[2] < 0 - bleedSize \/ cell[2] > gridHeight + bleedSize

\* C24: a live cell more than 40 cells (the bleed margin) outside the canvas
\* on any side is not carried over into the grid of the next tick
C24_BeyondBleedDropped ==
    \A t \in DOMAIN tickGrids :
        (t - 1) \in DOMAIN tickGrids =>
            \A cell \in tickGrids[t - 1] :
                BeyondBleed(cell) => cell \notin tickGrids[t]


\* ---------------------------------------------------------------------
\* Presets that lack keys (component.py 422-454): a Title Text layer, the
\* user's edits and PresetManager.openPreset of an outdated preset file
\* ---------------------------------------------------------------------
\* the preset files an older version left: EarlierPreset without some keys
OutdatedPresets ==
    {[k \in kept \cup {"preset"} |-> EarlierPreset[k]] :
        kept \in SUBSET TrackedWidgets}

PresetInit ==
    /\ resIndex = 1
    /\ comps = [l \in ControlLayers |-> NewLayer(height(resIndex))]
    /\ undoStack = <<>>
    /\ undoIndex = 0
    /\ presetFiles \in {[n \in PresetNames |-> p] : p \in OutdatedPresets}
    /\ savedPresets = <<>>
    /\ titleModified = [l \in ControlLayers |-> FALSE]
    /\ history = <<>>

PresetNext == UserEdit \/ PresetManagerOpenPreset

InitPreset ==
    /\ PresetInit /\ CoreIdle /\ PumpIdle /\ PreviewIdle /\ WrapIdle /\ RestIdle
    /\ opCount = 0

SpecPreset == InitPreset /\ [][PresetNext]_vars

\* what the control of attr shows once the value val of a preset is applied
Applied(attr, val, h) ==
    IF attr \in ColorWidgets THEN ColorText(val)
    ELSE IF attr \in RelativeWidgets THEN pixelValForAttr(h, val)
    ELSE val

\* C25: loadPreset of a map that lacks the key of some tracked controls leaves
\* each such control at its current value and applies every value that is in
\* the map
C25_MissingKeysKeepCurrent ==
    (Len(history) >= 1 /\ history[1].op = "open") =>
        LET l == history[1].layer
            file == presetFiles[comps[l].currentPreset]
        IN  \A a \in TrackedWidgets :
              IF a \in DOMAIN file
              THEN comps[l].widgets[a] = Applied(a, file[a], height(resIndex))
              ELSE comps[l].widgets[a] = history[1].before.widgets[a]


\* ---------------------------------------------------------------------
\* AddComponent on a full layer list (actions.py 25-37): the list holds
\* MaxComponents layers, or the MaxComponents + 1 that Core.insertComponent
\* lets it reach
\* ---------------------------------------------------------------------
FullInit ==
    /\ selectedComponents \in {Inserted(MaxComponents),
                              Inserted(MaxComponents + 1)}
    /\ nextId = Len(selectedComponents)
    /\ openingProject = FALSE
    /\ lastCall = [op |-> "init", ret |-> Nil, recs |-> <<>>]
    /\ resIndex = 1
    /\ comps = [i \in 1..nextId |-> NewLayer(height(resIndex))]
    /\ pages = [i \in 1..nextId |-> selectedComponents[i].id]
    /\ undoStack = <<>>
    /\ undoIndex = 0
    /\ presetFiles = <<>>
    /\ savedPresets = <<>>
    /\ titleModified = <<>>
    /\ history = <<>>

FullNext == ActAddComponent \/ ActUndo \/ ActRedo

InitFull ==
    /\ FullInit /\ PumpIdle /\ PreviewIdle /\ WrapIdle /\ LaterIdle
    /\ opCount = 0

SpecFull == InitFull /\ [][FullNext]_vars

\* the instances of a layer list, in order
LayerIds(list) == [i \in 1..Len(list) |-> list[i].id]

\* C26: undoing an AddComponent action removes the layer the action inserted
\* and no other; when the insertion was rejected because the list was full,
\* the undo removes nothing
C26_UndoAddRemovesOnlyInserted ==
    (/\ Len(history) >= 1
     /\ history[1].op = "undo" /\ history[1].kind = "AddComponent")
    => IF history[1].cmd.compI = -1
       THEN LayerIds(selectedComponents) = LayerIds(history[1].list)
       ELSE LayerIds(selectedComponents)
               = LayerIds(ListPop(history[1].list, history[1].cmd.compI))


\* ---------------------------------------------------------------------
\* The undo commands of a Game of Life layer (components/life.py 79-113,
\* 417-497): clicks on the preview, the shift buttons, an edit of the tick
\* rate, undo and redo on the main window's undo stack
\* ---------------------------------------------------------------------
MaxGridOps == 3
LeftButton == 1
RightButton == 2

\* the preview window, and the points of it the user clicks
PreviewSize == <<640, 360>>
ClickPoints == {1, 30} \X {1, 30}

\* ComponentUpdate.id_ for the tick rate: sum(ord(c) for c in 'tickRate')
tickRateId == 823

\* Component.previewClickEvent: the cell under the point
ClickedCell(pos, size) ==
    <<CeilOfProduct(gridWidth, Float(pos[1], size[1])) - 1,
      CeilOfProduct(gridHeight, Float(pos[2], size[2])) - 1>>

\* ClickGrid.__init__
ClickGrid(pos, id_) == [type |-> "ClickGrid", pos |-> <<pos>>, id_ |-> id_]

\* ClickGrid.add and ClickGrid.remove
ClickGridAdd(cmd, grid) == grid \cup {cmd.pos[k] : k \in 1..Len(cmd.pos)}
ClickGridRemove(cmd, grid) == grid \ {cmd.pos[k] : k \in 1..Len(cmd.pos)}

ClickGridRedo(cmd, grid) ==
    IF cmd.id_ = LeftButton THEN ClickGridAdd(cmd, grid)
    ELSE IF cmd.id_ = RightButton THEN ClickGridRemove(cmd, grid)
    ELSE grid

ClickGridUndo(cmd, grid) ==
    IF cmd.id_ = LeftButton THEN ClickGridRemove(cmd, grid)
    ELSE IF cmd.id_ = RightButton THEN ClickGridAdd(cmd, grid)
    ELSE grid

\* ShiftGrid.__init__; ShiftGrid.id returns the direction
ShiftGrid(direction) ==
    [type |-> "ShiftGrid", direction |-> direction, distance |-> 1,
     id_ |-> direction]

\* ShiftGrid.newGrid
ShiftGridNewGrid(grid, Xchange, Ychange) ==
    {<<cell[1] + Xchange, cell[2] + Ychange>> : cell \in grid}

ShiftGridRedo(cmd, grid) ==
    IF cmd.direction = 0 THEN ShiftGridNewGrid(grid, 0, 0 - cmd.distance)
    ELSE IF cmd.direction = 1 THEN ShiftGridNewGrid(grid, 0, cmd.distance)
    ELSE IF cmd.direction = 2 THEN ShiftGridNewGrid(grid, 0 - cmd.distance, 0)
    ELSE ShiftGridNewGrid(grid, cmd.distance, 0)

ShiftGridUndo(cmd, grid) ==
    IF cmd.direction = 0 THEN ShiftGridNewGrid(grid, 0, cmd.distance)
    ELSE IF cmd.direction = 1 THEN ShiftGridNewGrid(grid, 0, 0 - cmd.distance)
    ELSE IF cmd.direction = 2 THEN ShiftGridNewGrid(grid, cmd.distance, 0)
    ELSE ShiftGridNewGrid(grid, 0 - cmd.distance, 0)

\* the ComponentUpdate of a user edit of the tick rate
TickRateUpdate(old, new) ==
    [type |-> "ComponentUpdate", oldWidgetVals |-> [tickRate |-> old],
     modifiedVals |-> [tickRate |-> new], id_ |-> tickRateId]

\* mergeWith of the command on top of the stack, called with the pushed
\* command: ClickGrid reads other.pos and ShiftGrid other.distance, which a
\* command of another class does not have
GridMergeWith(cur, other) ==
    IF cur.type = "ComponentUpdate" THEN [cmd |-> mergeWith(cur, other), raised |-> FALSE]
    ELSE IF cur.type # other.type THEN [cmd |-> cur, raised |-> TRUE]
    ELSE IF cur.type = "ClickGrid"
    THEN [cmd |-> [cur EXCEPT !.pos = cur.pos \o other.pos], raised |-> FALSE]
    ELSE [cmd |-> [cur EXCEPT !.distance = cur.distance + other.distance],
          raised |-> FALSE]

\* QUndoStack.push after cmd.redo()
GridPush(stack, index, cmd) ==
    LET kept == SubSeq(stack, 1, index)
        appended == Append(kept, cmd)
        limited == IF Len(appended) > UndoLimit THEN Tail(appended) ELSE appended
        m == GridMergeWith(kept[index], cmd)
    IN  IF index > 0 /\ kept[index].id_ # -1 /\ kept[index].id_ = cmd.id_
        THEN [stack |-> [kept EXCEPT ![index] = m.cmd], index |-> index,
              mergeWith |-> <<kept[index].type, cmd.type>>, raised |-> m.raised]
        ELSE [stack |-> limited, index |-> Len(limited), mergeWith |-> <<>>,
              raised |-> FALSE]

GridInit ==
    /\ startingGrid \in {{}, {<<0, 0>>}, {<<0, 0>>, <<1, 1>>}}
    /\ tickRate = 1
    /\ tickGrids = <<>>
    /\ undoStack = <<>>
    /\ undoIndex = 0
    /\ history = <<>>

\* nothing runs after an exception left a virtual method of a command
GridStep ==
    /\ opCount < MaxGridOps
    /\ opCount' = opCount + 1
    /\ ~(IF history = <<>> THEN FALSE ELSE history[1].raised)
    /\ UNCHANGED <<coreVars, pumpVars, previewVars, wrapVars, resIndex, comps,
                   presetFiles, savedPresets, titleModified, actVars,
                   tickGrids, moreVars>>

\* the last two operations, newest first, with the grid before each
GridRemember(op, cmd, p) ==
    history' = <<[op |-> op, kind |-> cmd.type, cmd |-> cmd,
                  grid |-> startingGrid, mergeWith |-> p.mergeWith,
                  raised |-> p.raised]>>
               \o SubSeq(history, 1, IF Len(history) > 0 THEN 1 ELSE 0)

NoPush == [mergeWith |-> <<>>, raised |-> FALSE]

\* PreviewWindow.mousePressEvent on the layer: Component.previewClickEvent
PreviewClickEvent ==
    \E pos \in ClickPoints, button \in {LeftButton, RightButton} :
        LET action == ClickGrid(ClickedCell(pos, PreviewSize), button)
            p == GridPush(undoStack, undoIndex, action)
        IN  /\ GridStep
            /\ startingGrid' = ClickGridRedo(action, startingGrid)
            /\ undoStack' = p.stack
            /\ undoIndex' = p.index
            /\ GridRemember("click", action, p)
            /\ UNCHANGED tickRate

\* one of the four shift buttons, enabled while the grid has a live cell
ShiftGridButton ==
    \E d \in 0..3 :
        LET action == ShiftGrid(d)
            p == GridPush(undoStack, undoIndex, action)
        IN  /\ GridStep
            /\ startingGrid # {}
            /\ startingGrid' = ShiftGridRedo(action, startingGrid)
            /\ undoStack' = p.stack
            /\ undoIndex' = p.index
            /\ GridRemember("shift", action, p)
            /\ UNCHANGED tickRate

\* the user changes the tick rate spin box
TickRateEdit ==
    \E new \in 1..MaxTickRate :
        LET action == TickRateUpdate(tickRate, new)
            p == GridPush(undoStack, undoIndex, action)
        IN  /\ GridStep
            /\ new # tickRate
            /\ tickRate' = new
            /\ undoStack' = p.stack
            /\ undoIndex' = p.index
            /\ GridRemember("edit", action, p)
            /\ UNCHANGED startingGrid

GridUndo ==
    /\ GridStep
    /\ undoIndex > 0
    /\ LET cmd == undoStack[undoIndex]
       IN  /\ startingGrid' = IF cmd.type = "ClickGrid"
                              THEN ClickGridUndo(cmd, startingGrid)
                              ELSE IF cmd.type = "ShiftGrid"
                              THEN ShiftGridUndo(cmd, startingGrid)
                              ELSE startingGrid
           /\ tickRate' = IF cmd.type = "ComponentUpdate"
                          THEN cmd.oldWidgetVals.tickRate ELSE tickRate
           /\ GridRemember("undo", cmd, NoPush)
    /\ undoIndex' = undoIndex - 1
    /\ UNCHANGED undoStack

GridRedo ==
    /\ GridStep
    /\ undoIndex < Len(undoStack)
    /\ LET cmd == undoStack[undoIndex + 1]
       IN  /\ startingGrid' = IF cmd.type = "ClickGrid"
                              THEN ClickGridRedo(cmd, startingGrid)
                              ELSE IF cmd.type = "ShiftGrid"
                              THEN ShiftGridRedo(cmd, startingGrid)
                              ELSE startingGrid
           /\ tickRate' = IF cmd.type = "ComponentUpdate"
                          THEN cmd.modifiedVals.tickRate ELSE tickRate
           /\ GridRemember("redo", cmd, NoPush)
    /\ undoIndex' = undoIndex + 1
    /\ UNCHANGED undoStack

GridNext ==
    \/ PreviewClickEvent
    \/ ShiftGridButton
    \/ TickRateEdit
    \/ GridUndo
    \/ GridRedo

InitGrid ==
    /\ GridInit /\ CoreIdle /\ PumpIdle /\ PreviewIdle /\ WrapIdle /\ ActIdle
    /\ MoreIdle
    /\ resIndex = 1 /\ comps = <<>> /\ presetFiles = <<>>
    /\ savedPresets = <<>> /\ titleModified = <<>>
    /\ opCount = 0

SpecGrid == InitGrid /\ [][GridNext]_vars

\* C27: undo-stack merging only combines two commands of the same kind: a
\* grid click, a grid shift and a control edit never report equal merge
\* ids, so mergeWith is never invoked with a command of another kind
C27_MergeSameKindOnly ==
    \A k \in 1..Len(history) :
        history[k].mergeWith # <<>>
            => history[k].mergeWith[1] = history[k].mergeWith[2]

\* C28: undoing a grid click restores the starting grid to the set of live
\* cells it held before the click, also when a left-clicked cell was already
\* alive or a right-clicked cell was already dead
C28_UndoClickRestoresGrid ==
    (/\ Len(history) = 2
     /\ history[1].op = "undo" /\ history[1].kind = "ClickGrid"
     /\ history[2].op = "click" /\ history[2].mergeWith = <<>>)
    => startingGrid = history[2].grid


\* ---------------------------------------------------------------------
\* FfmpegVideo.threadError (toolkit/ffmpeg.py 20-24, 123-146) and the
\* frameRender of the layers that read frames from an FfmpegVideo (video.py,
\* spectrum.py, waveform.py), over several exports
\* ---------------------------------------------------------------------
MaxExports == 2
MaxErrOps == 5

ErrInit ==
    /\ threadError = <<>>
    /\ exportNo = 0
    /\ video = [l \in Layers |-> FALSE]
    /\ lastRender = <<>>

ErrStep ==
    /\ opCount < MaxErrOps
    /\ opCount' = opCount + 1
    /\ UNCHANGED <<coreVars, pumpVars, previewVars, wrapVars, compVars,
                   actVars, lifeVars, convVars, audioVars, gateVars>>

\* an export starts: preFrameRender of every layer makes its FfmpegVideo,
\* whose __init__ starts the pump thread
PreFrameRender ==
    /\ ErrStep
    /\ exportNo < MaxExports
    /\ \A l \in Layers : ~video[l]
    /\ exportNo' = exportNo + 1
    /\ video' = [l \in Layers |-> TRUE]
    /\ UNCHANGED <<threadError, lastRender>>

\* fillBuffer of a layer's instance catches AttributeError or ValueError
\* and assigns the class attribute FfmpegVideo.threadError
FillBufferError ==
    \E l \in Layers :
        /\ ErrStep
        /\ video[l]
        /\ threadError' = <<[layer |-> l, export |-> exportNo]>>
        /\ UNCHANGED <<exportNo, video, lastRender>>

\* Component.frameRender of an encoder-backed layer
FrameRender ==
    \E l \in Layers :
        /\ ErrStep
        /\ video[l]
        /\ lastRender' = <<[layer |-> l, export |-> exportNo,
                            raised |-> threadError]>>
        /\ UNCHANGED <<threadError, exportNo, video>>

\* the export ends: postFrameRender of every layer closes its pipe
PostFrameRender ==
    /\ ErrStep
    /\ \E l \in Layers : video[l]
    /\ video' = [l \in Layers |-> FALSE]
    /\ UNCHANGED <<threadError, exportNo, lastRender>>

ErrNext == PreFrameRender \/ FillBufferError \/ FrameRender \/ PostFrameRender

InitErr ==
    /\ ErrInit /\ CoreIdle /\ PumpIdle /\ PreviewIdle /\ WrapIdle /\ CompIdle
    /\ ActIdle /\ LifeIdle /\ ConvIdle /\ AudioIdle /\ GateIdle
    /\ opCount = 0

SpecErr == InitErr /\ [][ErrNext]_vars

\* C29: a pump error recorded by one FfmpegVideo instance is raised only by
\* the frameRender of the layer that owns the instance, in the export the
\* instance belongs to: not by another layer, not in a later export
C29_ThreadErrorOwnLayerOnly ==
    \A k \in 1..Len(lastRender) :
        \A e \in 1..Len(lastRender[k].raised) :
            /\ lastRender[k].raised[e].layer = lastRender[k].layer
            /\ lastRender[k].raised[e].export = lastRender[k].export


\* ---------------------------------------------------------------------
\* The modified check with layers of two component types (core.py 170-182,
\* presetmanager.py 206-224, mainwindow.py 365-401).  Layer 1 is a Title
\* Text; the other layers are of a second type, whose controls are
\* abstracted to the same three kinds.  Each type has its own preset
\* directory: presetFiles is here type -> preset name -> saved dict.
\* ---------------------------------------------------------------------
TypeOf(l) == IF l = 1 THEN "Title Text" ELSE "Waveform"

\* the preset "Saved" in the second type's directory
OtherPreset ==
    [textColor |-> White, alignment |-> 1, yPosition |-> Float(1, 2),
     preset |-> "Saved"]

TypeInit ==
    /\ resIndex = 1
    /\ comps = [l \in Layers |-> NewLayer(height(resIndex))]
    /\ undoStack = <<>>
    /\ undoIndex = 0
    /\ presetFiles = [t \in {TypeOf(l) : l \in Layers} |->
                        [n \in PresetNames |->
                            IF t = "Title Text" THEN EarlierPreset
                            ELSE OtherPreset]]
    /\ savedPresets = <<>>
    /\ titleModified = [l \in Layers |-> FALSE]
    /\ history = <<>>

\* PresetManager.openPreset: _openPreset reads the file from the directory
\* of the layer's component type
TypeOpenPreset ==
    \E l \in Layers, presetName \in PresetNames :
        /\ CompStep
        /\ PushOpenPreset("open", l, comps[l], presetFiles[TypeOf(l)], presetName)
        /\ UNCHANGED <<resIndex, presetFiles>>

TypeNext == UserEdit \/ TypeOpenPreset

InitType ==
    /\ TypeInit /\ CoreIdle /\ PumpIdle /\ PreviewIdle /\ WrapIdle /\ RestIdle
    /\ opCount = 0

SpecType == InitType /\ [][TypeNext]_vars

\* what MainWindow.updateComponentTitle finds for the layer's current values
ModifiedCheck(l) ==
    updateComponentTitle(comps[l], PresetStore(comps[l], comps[l].currentPreset),
                         savedPresets)

\* C30: the modified check of a layer compares with the saved preset of the
\* layer's own component type: opening a preset of the same name on a layer
\* of another type does not change the modified status of the first layer
C30_OtherTypeKeepsStatus ==
    [][\A l \in Layers :
          (/\ opCount' = opCount + 1
           /\ history'[1].op = "open"
           /\ history'[1].layer # l
           /\ TypeOf(history'[1].layer) # TypeOf(l))
          => ModifiedCheck(l)' = ModifiedCheck(l)]_vars

=============================================================================
